---------------------------- MODULE Spec2Model ----------------------------
(***************************************************************************)
(* Device automation engine of the home-automation daemon "hard"           *)
(* (src/src/onewire.rs): the OneWire::worker control loop, the            *)
(* StateMachine hooks, the relay / yeelight transition rules and the       *)
(* cesspool aggregator.                                                    *)
(*                                                                         *)
(* Time is counted in milliseconds (an Instant is the number of ms since   *)
(* the worker started, a Duration a number of ms).  One pass of the loop   *)
(* is a chain of steps driven by pc; the clock advances, and the other     *)
(* threads act, between two passes.                                        *)
(***************************************************************************)
EXTENDS Integers, Sequences, FiniteSets, TLC

VARIABLES
    conf,                \* static configuration (boards, tags, rfid tags, environment)
    now,                 \* the monotonic clock (ms)
    ticks,               \* number of clock advances so far
    pc,                  \* position of the worker inside a pass
    cur_sb,              \* index of the sensor board being processed
    cur_val,             \* new_value read from that board
    cur_bit,             \* index into bits of the loop `for bit in &bits`
    cur_task,            \* cursor into the work list of the pending-task block
    sb_last,             \* SensorBoard.last_value per board
    sb_raw,              \* the raw byte the last read of each board's file returned
    rb_new,              \* RelayBoard.new_value per board
    rb_last,             \* RelayBoard.last_value per board
    rel,                 \* per relay id: override_mode, last_toggled, stop_after
    yl,                  \* per yeelight id: powered_on, override_mode, last_toggled, stop_after,
                         \* and cmds, the yeelight_tcp_command threads still running
    bedroom_mode,        \* StateMachine.bedroom_mode
    wicket_gate_started, \* StateMachine.wicket_gate_started
    wicket_gate_delay,   \* StateMachine.wicket_gate_delay
    wicket_gate_relays,  \* StateMachine.wicket_gate_relays
    cesspool_level,      \* StateMachine.cesspool_level.level
    pending_tasks,       \* the worker's pending_tasks vector
    ow_channel,          \* tasks in flight in the ow_receiver channel
    rfid_pending_tags,   \* the shared queue of scanned tag ids
    night,               \* the worker's night flag
    night_check,         \* Instant of the last sun position check (None: no geolocation)
    cancel,              \* worker_cancel_flag
    log                  \* what the current pass emitted so far (log lines, intents, writes)

vars == << conf, now, ticks, pc, cur_sb, cur_val, cur_bit, cur_task, sb_last, sb_raw,
           rb_new, rb_last, rel, yl, bedroom_mode, wicket_gate_started,
           wicket_gate_delay, wicket_gate_relays, cesspool_level, pending_tasks,
           ow_channel, rfid_pending_tags, night, night_check, cancel, log >>

(***************************************************************************)
(* Program constants                                                       *)
(***************************************************************************)
DS2408_INITIAL_STATE == 255
DEFAULT_PIR_HOLD_SECS == 120
DEFAULT_SWITCH_HOLD_SECS == 3600
DEFAULT_PIR_PROLONG_SECS == 900
MIN_TOGGLE_DELAY_SECS == 1
ENTRY_LIGHT_PROLONG_SECS == 600
SUN_POS_CHECK_INTERVAL_SECS == 60
YEELIGHT_ATTEMPTS == 3

\* Duration::from_secs_f32 for the whole and half seconds the model uses
Secs(s) == s * 1000

\* Option::None
None == -1

\* the result of a failed open / seek / read of a board file
IOERR == -2

(***************************************************************************)
(* Bounds of the model                                                     *)
(***************************************************************************)
\* clock advances in one behaviour
MaxTicks == 3
\* tasks in flight in the external channel
MaxChannel == 1
\* scanned tag ids waiting in the shared queue
MaxScans == 2
\* number of cesspool probes of the cesspool configuration
MaxProbes == 3
\* tasks sent into the external channel in a row
MaxBurst == 2

(***************************************************************************)
(* Bytes and bits                                                          *)
(***************************************************************************)
Pow2(i) == 2 ^ i

\* v & (1 << i) != 0
BitSet(v, i) == (v \div Pow2(i)) % 2 = 1

\* v & !(1 << i)
ClearBit(v, i) == IF BitSet(v, i) THEN v - Pow2(i) ELSE v

\* v | (1 << i)
SetBit(v, i) == IF BitSet(v, i) THEN v ELSE v + Pow2(i)

\* v ^ (1 << i)
XorBit(v, i) == IF BitSet(v, i) THEN v - Pow2(i) ELSE v + Pow2(i)

\* `let bits = vec![0, 2]`
bits == << 0, 2 >>

\* the bytes SensorBoard::read_state accepts
ValidSensorBytes == { 90, 75, 30, 15 }

\* read_state with 0x4b missing from the accepted bytes
read_state_three(raw) == IF raw \in { 90, 30, 15 } THEN raw ELSE None

\* read_state that accepts every byte that was read
read_state_any(raw) == IF raw = IOERR THEN None ELSE raw

\* SensorBoard::read_state: Some(byte) for an accepted byte, None otherwise
read_state(raw) == IF raw \in ValidSensorBytes THEN raw ELSE None

(***************************************************************************)
(* Tags.  A tag is the vector its text splits into at ':' (tag.split(":")),*)
(* so "cesspool:2" is <<"cesspool", "2">>.                                 *)
(***************************************************************************)
\* pairs <<text, prefix>> with text.starts_with(prefix), text # prefix
PrefixTable == { << "wicket_gate_invert_state", "wicket_gate" >>,
                 << "monitor_in_influxdb_all", "monitor_in_influxdb" >>,
                 << "doorbell_front", "doorbell" >>,
                 << "cesspool_invert_state", "cesspool" >> }

\* pairs <<text, part>> with text.contains(part), text # part
ContainsTable == { << "wicket_gate_invert_state", "invert_state" >>,
                   << "cesspool_invert_state", "invert_state" >> }

\* tag.starts_with(p), p holding no ':'
StartsWith(tag, p) == tag[1] = p \/ << tag[1], p >> \in PrefixTable

\* tag.contains(p), p holding no ':'
Contains(tag, p) == \E i \in 1..Len(tag) : tag[i] = p \/ << tag[i], p >> \in ContainsTable

\* tag == p (match tag.as_ref())
TagIs(tag, p) == tag = << p >>

\* str::parse::<usize>: the parsed number, None for Err
ParseUsize(s) == CASE s = "0" -> 0 [] s = "1" -> 1 [] s = "2" -> 2 [] s = "3" -> 3
                   [] s = "4" -> 4 [] s = "5" -> 5 [] OTHER -> None

\* str::parse::<f32> followed by Duration::from_secs_f32: ms, None for Err
ParseSecs(s) == CASE s = "1" -> 1000 [] s = "2" -> 2000 [] s = "0.5" -> 500
                  [] s = "5" -> 5000 [] OTHER -> None


(***************************************************************************)
(* Device model: the registries built at startup                           *)
(***************************************************************************)
\* an empty slot (pio_a / pio_b of a sensor board, relay[i] of a relay board)
NoDevice == [ id |-> None ]

\* the Sensor add_sensor creates
Sensor(id_sensor, id_kind, tags, associated_relays, associated_yeelights) ==
    [ id |-> id_sensor, id_kind |-> id_kind, tags |-> tags,
      associated_relays |-> associated_relays,
      associated_yeelights |-> associated_yeelights ]

\* index of the board with this address, 0 when there is none
FindBoard(boards, address) ==
    IF \E b \in 1..Len(boards) : boards[b].ow_address = address
    THEN CHOOSE b \in 1..Len(boards) : boards[b].ow_address = address
    ELSE 0

RECURSIVE MaxCesspoolIndex(_, _, _)
\* add_sensor's scan of the tags for the largest cesspool index
MaxCesspoolIndex(tags, i, m) ==
    IF i > Len(tags) THEN m
    ELSE LET tag == tags[i]
             idx == IF StartsWith(tag, "cesspool") /\ Len(tag) >= 2
                    THEN ParseUsize(tag[2]) ELSE None
         IN  MaxCesspoolIndex(tags, i + 1, IF idx # None /\ m < idx THEN idx ELSE m)

\* SensorDevices::add_sensor
add_sensor(dev, id_sensor, id_kind, address, bit, associated_relays, associated_yeelights, tags) ==
    LET found  == FindBoard(dev.sensor_boards, address)
        boards == IF found # 0 THEN dev.sensor_boards
                  ELSE Append(dev.sensor_boards,
                              [ ow_address |-> address, pio_a |-> NoDevice,
                                pio_b |-> NoDevice ])
        b      == IF found # 0 THEN found ELSE Len(boards)
        sensor == Sensor(id_sensor, id_kind, tags, associated_relays,
                         associated_yeelights)
    IN  [ dev EXCEPT
            !.sensor_boards =
                CASE bit = 0 -> [ boards EXCEPT ![b].pio_a = sensor ]
                  [] bit = 2 -> [ boards EXCEPT ![b].pio_b = sensor ]
                  [] OTHER   -> boards,
            !.max_cesspool_level = MaxCesspoolIndex(tags, 1, dev.max_cesspool_level) ]

\* RelayDevices::add_relay; a hold time is None or a Duration
add_relay(dev, id_relay, address, bit, pir_exclude, pir_hold, switch_hold, initial_state, pir_all_day, tags) ==
    LET found  == FindBoard(dev.relay_boards, address)
        boards == IF found # 0 THEN dev.relay_boards
                  ELSE Append(dev.relay_boards,
                              [ ow_address |-> address,
                                relay |-> [ i \in 0..7 |-> NoDevice ],
                                new_value |-> None,
                                last_value |-> DS2408_INITIAL_STATE ])
        b      == IF found # 0 THEN found ELSE Len(boards)
        base   == IF boards[b].last_value # None THEN boards[b].last_value
                  ELSE DS2408_INITIAL_STATE
        relay  == [ id |-> id_relay, tags |-> tags, pir_exclude |-> pir_exclude,
                    pir_hold_secs |-> IF pir_hold = None
                                      THEN Secs(DEFAULT_PIR_HOLD_SECS) ELSE pir_hold,
                    switch_hold_secs |-> IF switch_hold = None
                                         THEN Secs(DEFAULT_SWITCH_HOLD_SECS)
                                         ELSE switch_hold,
                    pir_all_day |-> pir_all_day,
                    override_mode |-> initial_state ]
    IN  [ dev EXCEPT
            !.relay_boards =
                [ boards EXCEPT
                    ![b].relay[bit] = relay,
                    ![b].new_value = IF initial_state THEN ClearBit(base, bit)
                                     ELSE boards[b].new_value ] ]

\* RelayDevices::add_yeelight
add_yeelight(dev, id_yeelight, pir_exclude, pir_hold, switch_hold, pir_all_day, tags) ==
    [ dev EXCEPT
        !.yeelight = Append(dev.yeelight,
            [ id |-> id_yeelight, tags |-> tags, pir_exclude |-> pir_exclude,
              pir_hold_secs |-> IF pir_hold = None
                                THEN Secs(DEFAULT_PIR_HOLD_SECS) ELSE pir_hold,
              switch_hold_secs |-> IF switch_hold = None
                                   THEN Secs(DEFAULT_SWITCH_HOLD_SECS)
                                   ELSE switch_hold,
              pir_all_day |-> pir_all_day ]) ]

\* the empty registries
NoSensorDevices == [ sensor_boards |-> << >>, max_cesspool_level |-> 0 ]
NoRelayDevices == [ relay_boards |-> << >>, yeelight |-> << >> ]

\* the kinds table (id_kind -> kind code)
Kinds == [ k \in { 1, 2, 3 } |->
             CASE k = 1 -> "PIR_Trigger" [] k = 2 -> "Switch" [] OTHER -> "Reed" ]

\* an OneWireTask
OneWireTask(command, id_relay, tag_group, duration) ==
    [ command |-> command, id_relay |-> id_relay, tag_group |-> tag_group,
      duration |-> duration ]

\* tag_group: None
NoGroup == "-"

\* an RfidTag as the worker uses it
RfidTag(id_tag, tags, associated_relays) ==
    [ id_tag |-> id_tag, tags |-> tags, associated_relays |-> associated_relays ]

(***************************************************************************)
(* What a pass emits: log lines, intents sent to the collaborators, bytes  *)
(* written to relay boards, yeelight commands.  One shape for all of them. *)
(***************************************************************************)
Line(k, id, v) == [ k |-> k, id |-> id, v |-> v ]

\* Some(bool) of an Option<bool> whose None is None
SomeBool(b) == IF b THEN 1 ELSE 0

(***************************************************************************)
(* Cesspool aggregator                                                     *)
(***************************************************************************)
RECURSIVE CountLevel(_, _, _)
\* level.iter().filter(|l| l == v).count(), from index i on
CountLevel(level, i, v) ==
    IF i > Len(level) THEN 0
    ELSE (IF level[i] = v THEN 1 ELSE 0) + CountLevel(level, i + 1, v)

\* got_all_sensors satisfied with one probe still unknown
got_most_sensors(level) == CountLevel(level, 1, None) <= 1

\* CesspoolLevel::got_all_sensors
got_all_sensors(level) == CountLevel(level, 1, None) = 0

\* CesspoolLevel::get_level_lcd
get_level_lcd(level) == CountLevel(level, 1, SomeBool(TRUE)) % 256

\* get_level_percentage rounding to the nearest integer instead of truncating
get_level_percentage_rounded(level) ==
    IF Len(level) = 0 THEN 0
    ELSE (CountLevel(level, 1, SomeBool(TRUE)) * 200 + Len(level)) \div (2 * Len(level))

\* CesspoolLevel::get_level_percentage: the f32 quotient times 100, cast to u8
\* (the cast drops the fraction; 0/0 is NaN, which casts to 0)
get_level_percentage(level) ==
    IF Len(level) = 0 THEN 0
    ELSE (CountLevel(level, 1, SomeBool(TRUE)) * 100) \div Len(level)

\* the resize of the level vector at the start of a pass
resize_level(level, max_cesspool_level) ==
    IF Len(level) < max_cesspool_level
    THEN level \o [ i \in 1..(max_cesspool_level - Len(level)) |-> None ]
    ELSE level

(***************************************************************************)
(* StateMachine hooks.  The state machine is the record                    *)
(*   [bedroom_mode, started, delay, relays, level, pending, log, panic].   *)
(***************************************************************************)
RECURSIVE BedroomScanAllowsAll(_, _, _)
\* bedroom block that lets every bedroom_enable event through
BedroomScanAllowsAll(tags, i, bm) ==
    IF i > Len(tags) THEN [ returned |-> FALSE, ret |-> TRUE, bedroom_mode |-> bm ]
    ELSE IF TagIs(tags[i], "bedroom_enable")
         THEN [ returned |-> TRUE, ret |-> TRUE, bedroom_mode |-> TRUE ]
         ELSE IF TagIs(tags[i], "bedroom_disable")
              THEN BedroomScanAllowsAll(tags, i + 1, FALSE)
              ELSE BedroomScanAllowsAll(tags, i + 1, bm)

RECURSIVE BedroomScan(_, _, _)
\* sensor_hook, bedroom block: the loop over the tags from index i on
BedroomScan(tags, i, bm) ==
    IF i > Len(tags) THEN [ returned |-> FALSE, ret |-> TRUE, bedroom_mode |-> bm ]
    ELSE IF TagIs(tags[i], "bedroom_enable")
         THEN [ returned |-> TRUE, ret |-> ~bm, bedroom_mode |-> TRUE ]
         ELSE IF TagIs(tags[i], "bedroom_disable")
              THEN BedroomScan(tags, i + 1, FALSE)
              ELSE BedroomScan(tags, i + 1, bm)

\* one TurnOnProlong task per relay id, as the wicket gate block and
\* process_rfid_tags push them
ProlongTasks(relays) ==
    [ k \in 1..Len(relays) |-> OneWireTask("TurnOnProlong", relays[k], NoGroup, None) ]

\* the entry light task pushed at night
EntryLightTask ==
    OneWireTask("TurnOnProlongNight", None, "entry_light", Secs(ENTRY_LIGHT_PROLONG_SECS))

\* wicket gate block that stays armed when the event comes after the delay
WicketGateKeepsArmed(sm, sensor_on, tags, is_night, t) ==
    LET idx == { i \in 1..Len(tags) : StartsWith(tags[i], "wicket_gate") }
    IN  IF idx = { } THEN [ returned |-> FALSE, sm |-> sm ]
        ELSE LET tag == tags[CHOOSE i \in idx : \A j \in idx : i <= j]
                 on  == IF Contains(tag, "invert_state") THEN ~sensor_on ELSE sensor_on
             IN  IF on /\ sm.started # None /\ sm.delay # None /\ t - sm.started < sm.delay
                 THEN [ returned |-> TRUE,
                        sm |-> [ sm EXCEPT
                            !.started = None,
                            !.pending = sm.pending \o ProlongTasks(sm.relays)
                                \o (IF is_night THEN << EntryLightTask >> ELSE << >>),
                            !.log = sm.log \o
                                (IF conf.ethlcd
                                 THEN << Line("beep_confirmation", 0, 0) >>
                                 ELSE << >>) ] ]
                 ELSE [ returned |-> FALSE, sm |-> sm ]

\* wicket gate block that stops the event whenever it disarms the gate
WicketGateLateStops(sm, sensor_on, tags, is_night, t) ==
    LET idx == { i \in 1..Len(tags) : StartsWith(tags[i], "wicket_gate") }
    IN  IF idx = { } THEN [ returned |-> FALSE, sm |-> sm ]
        ELSE LET tag == tags[CHOOSE i \in idx : \A j \in idx : i <= j]
                 on  == IF Contains(tag, "invert_state") THEN ~sensor_on ELSE sensor_on
             IN  IF on /\ sm.started # None /\ sm.delay # None
                 THEN IF t - sm.started < sm.delay
                      THEN [ returned |-> TRUE,
                             sm |-> [ sm EXCEPT
                                 !.started = None,
                                 !.pending = sm.pending \o ProlongTasks(sm.relays)
                                     \o (IF is_night THEN << EntryLightTask >> ELSE << >>),
                                 !.log = sm.log \o
                                     (IF conf.ethlcd
                                      THEN << Line("beep_confirmation", 0, 0) >>
                                      ELSE << >>) ] ]
                      ELSE [ returned |-> TRUE, sm |-> [ sm EXCEPT !.started = None ] ]
                 ELSE [ returned |-> FALSE, sm |-> sm ]

\* sensor_hook, wicket gate block; sm is the state machine after the bedroom block
WicketGate(sm, sensor_on, tags, is_night, t) ==
    LET idx == { i \in 1..Len(tags) : StartsWith(tags[i], "wicket_gate") }
    IN  IF idx = { } THEN [ returned |-> FALSE, sm |-> sm ]
        ELSE LET tag == tags[CHOOSE i \in idx : \A j \in idx : i <= j]
                 on  == IF Contains(tag, "invert_state") THEN ~sensor_on ELSE sensor_on
             IN  IF on /\ sm.started # None /\ sm.delay # None
                 THEN IF t - sm.started < sm.delay
                      THEN [ returned |-> TRUE,
                             sm |-> [ sm EXCEPT
                                 !.started = None,
                                 !.pending = sm.pending \o ProlongTasks(sm.relays)
                                     \o (IF is_night THEN << EntryLightTask >> ELSE << >>),
                                 !.log = sm.log \o
                                     (IF conf.ethlcd
                                      THEN << Line("beep_confirmation", 0, 0) >>
                                      ELSE << >>) ] ]
                      ELSE [ returned |-> FALSE, sm |-> [ sm EXCEPT !.started = None ] ]
                 ELSE [ returned |-> FALSE, sm |-> sm ]

\* sensor_hook, cesspool tag: the update of the level vector and the snapshot
CesspoolTag(sm, tag, on) ==
    LET index == IF Len(tag) >= 2 THEN ParseUsize(tag[2]) ELSE None
    IN  IF index = None THEN sm
        ELSE IF index - 1 < 0 \/ index > Len(sm.level)
             THEN [ sm EXCEPT !.panic = TRUE ]
             ELSE LET level == [ sm.level EXCEPT ![index] = SomeBool(on) ]
                  IN  [ sm EXCEPT
                          !.level = level,
                          !.log = IF got_all_sensors(level)
                                  THEN sm.log \o
                                       << Line("SetCesspoolLevel", 0, get_level_lcd(level)),
                                          Line("UpdateCesspoolLevel", 0,
                                               get_level_percentage(level)) >>
                                  ELSE sm.log ]

\* the loop body that acts on on-states only, whatever the tag's modifiers
GenericTagOnOnly(sm, tag, sensor_on, initial_read, id_sensor) ==
    LET on  == IF Contains(tag, "invert_state") THEN ~sensor_on ELSE sensor_on
        sm1 == IF StartsWith(tag, "monitor_in_influxdb")
               THEN [ sm EXCEPT !.log = sm.log \o
                        << Line(IF on THEN "UpdateSensorStateOn"
                                ELSE "UpdateSensorStateOff", id_sensor, 0) >> ]
               ELSE sm
    IN  IF ~initial_read /\ ~on THEN sm1
        ELSE LET sm2 ==
                   IF initial_read THEN sm1
                   ELSE IF StartsWith(tag, "cmd")
                        THEN IF Len(tag) >= 2
                             THEN [ sm1 EXCEPT !.log = sm1.log \o
                                      << Line("run_shell_command", id_sensor,
                                              SomeBool(on)) >> ]
                             ELSE sm1
                        ELSE IF conf.ethlcd /\ StartsWith(tag, "doorbell")
                             THEN [ sm1 EXCEPT !.log = sm1.log \o
                                      << Line("beep_doorbell", 0, 0) >> ]
                             ELSE sm1
             IN  IF StartsWith(tag, "cesspool") THEN CesspoolTag(sm2, tag, on) ELSE sm2

\* sensor_hook, one iteration of the loop "processing other tags"
GenericTag(sm, tag, sensor_on, initial_read, id_sensor) ==
    LET on  == IF Contains(tag, "invert_state") THEN ~sensor_on ELSE sensor_on
        sm1 == IF StartsWith(tag, "monitor_in_influxdb")
               THEN [ sm EXCEPT !.log = sm.log \o
                        << Line(IF on THEN "UpdateSensorStateOn"
                                ELSE "UpdateSensorStateOff", id_sensor, 0) >> ]
               ELSE sm
    IN  IF ~initial_read /\ ~(on \/ Contains(tag, "all_changes")) THEN sm1
        ELSE LET sm2 ==
                   IF initial_read THEN sm1
                   ELSE IF StartsWith(tag, "cmd")
                        THEN IF Len(tag) >= 2
                             THEN [ sm1 EXCEPT !.log = sm1.log \o
                                      << Line("run_shell_command", id_sensor,
                                              SomeBool(on)) >> ]
                             ELSE sm1
                        ELSE IF conf.ethlcd /\ StartsWith(tag, "doorbell")
                             THEN [ sm1 EXCEPT !.log = sm1.log \o
                                      << Line("beep_doorbell", 0, 0) >> ]
                             ELSE sm1
             IN  IF StartsWith(tag, "cesspool") THEN CesspoolTag(sm2, tag, on) ELSE sm2

RECURSIVE GenericTags(_, _, _, _, _, _)
\* sensor_hook, the loop "processing other tags" from index i on
GenericTags(sm, tags, i, sensor_on, initial_read, id_sensor) ==
    IF i > Len(tags) \/ sm.panic THEN sm
    ELSE GenericTags(GenericTag(sm, tags[i], sensor_on, initial_read, id_sensor),
                     tags, i + 1, sensor_on, initial_read, id_sensor)

\* sensor_hook that treats a first read as a change
sensor_hook_first_acts(sm, kind_code, sensor_on, tags, is_night, initial_read, id_sensor, t) ==
    LET bed == IF kind_code = "PIR_Trigger" /\ sensor_on /\ is_night
               THEN BedroomScan(tags, 1, sm.bedroom_mode)
               ELSE [ returned |-> FALSE, ret |-> TRUE, bedroom_mode |-> sm.bedroom_mode ]
        sm1 == [ sm EXCEPT !.bedroom_mode = bed.bedroom_mode ]
    IN  IF bed.returned THEN [ ret |-> bed.ret, sm |-> sm1 ]
        ELSE LET wg == WicketGate(sm1, sensor_on, tags, is_night, t)
             IN  IF wg.returned THEN [ ret |-> FALSE, sm |-> wg.sm ]
                 ELSE [ ret |-> TRUE,
                        sm |-> GenericTags(wg.sm, tags, 1, sensor_on, FALSE, id_sensor) ]

\* StateMachine::sensor_hook: [ret, sm]
sensor_hook(sm, kind_code, sensor_on, tags, is_night, initial_read, id_sensor, t) ==
    LET bed == IF ~initial_read /\ kind_code = "PIR_Trigger" /\ sensor_on /\ is_night
               THEN BedroomScan(tags, 1, sm.bedroom_mode)
               ELSE [ returned |-> FALSE, ret |-> TRUE, bedroom_mode |-> sm.bedroom_mode ]
        sm1 == [ sm EXCEPT !.bedroom_mode = bed.bedroom_mode ]
    IN  IF bed.returned THEN [ ret |-> bed.ret, sm |-> sm1 ]
        ELSE LET wg == IF ~initial_read
                       THEN WicketGate(sm1, sensor_on, tags, is_night, t)
                       ELSE [ returned |-> FALSE, sm |-> sm1 ]
             IN  IF wg.returned THEN [ ret |-> FALSE, sm |-> wg.sm ]
                 ELSE [ ret |-> TRUE,
                        sm |-> GenericTags(wg.sm, tags, 1, sensor_on, initial_read,
                                           id_sensor) ]

\* relay_tags.contains(tag text)
HasTag(tags, p) == \E i \in 1..Len(tags) : TagIs(tags[i], p)

RECURSIVE MonitorLines(_, _, _, _)
\* relay_hook, the loop emitting the influxdb intents
MonitorLines(tags, i, sensor_on, id_relay) ==
    IF i > Len(tags) THEN << >>
    ELSE (IF StartsWith(tags[i], "monitor_in_influxdb")
          THEN << Line(IF sensor_on THEN "UpdateRelayStateOn" ELSE "UpdateRelayStateOff",
                       id_relay, 0) >>
          ELSE << >>) \o MonitorLines(tags, i + 1, sensor_on, id_relay)

\* relay_hook without the night_exclude veto
relay_hook_no_veto(kind_code, sensor_on, relay_tags, is_night, id_relay) ==
    [ ret |-> TRUE, lines |-> MonitorLines(relay_tags, 1, sensor_on, id_relay) ]

\* StateMachine::relay_hook: [ret, lines]
relay_hook(kind_code, sensor_on, relay_tags, is_night, id_relay) ==
    IF kind_code = "PIR_Trigger" /\ sensor_on /\ is_night /\ HasTag(relay_tags, "night_exclude")
    THEN [ ret |-> FALSE, lines |-> << >> ]
    ELSE [ ret |-> TRUE, lines |-> MonitorLines(relay_tags, 1, sensor_on, id_relay) ]

\* StateMachine::yeelight_hook
yeelight_hook == TRUE

(***************************************************************************)
(* Actuator transition rules.  r is a relay (or yeelight) as configured,   *)
(* d its mutable fields [override_mode, last_toggled, stop_after], and the *)
(* result is [d, new_state, set, lines]: the fields and the board's output *)
(* byte afterwards, whether rb.new_value was assigned, and the log lines.  *)
(***************************************************************************)
\* toggled.elapsed() < MIN_TOGGLE_DELAY_SECS for Some(toggled)
FlipFlopBlock(last_toggled, t) ==
    last_toggled # None /\ t - last_toggled < Secs(MIN_TOGGLE_DELAY_SECS)

\* last_toggled.unwrap_or(Instant::now()).elapsed()
ToggledElapsed(last_toggled, t) == IF last_toggled = None THEN 0 ELSE t - last_toggled

\* the condition under which a PIR event concerns a relay or yeelight at all
PirApplies(r, d, on, is_night) ==
    (d.override_mode /\ on) \/ (~r.pir_exclude /\ on /\ (is_night \/ r.pir_all_day))

\* PIR prolonging whose window in override mode is always DEFAULT_PIR_PROLONG_SECS
PirProlongRelayFixedWindow(r, d, t) ==
    LET toggled_elapsed == ToggledElapsed(d.last_toggled, t)
    IN  IF d.override_mode
        THEN IF r.switch_hold_secs > Secs(DEFAULT_PIR_PROLONG_SECS)
                /\ toggled_elapsed > r.switch_hold_secs - Secs(DEFAULT_PIR_PROLONG_SECS)
             THEN [ d EXCEPT !.stop_after = toggled_elapsed + Secs(DEFAULT_PIR_PROLONG_SECS) ]
             ELSE d
        ELSE [ d EXCEPT !.stop_after = toggled_elapsed + r.pir_hold_secs ]

\* the PIR prolonging of a relay that is on or in override mode
PirProlongRelay(r, d, t) ==
    LET toggled_elapsed == ToggledElapsed(d.last_toggled, t)
        prolong_secs == IF d.override_mode /\ Secs(DEFAULT_PIR_PROLONG_SECS) > r.pir_hold_secs
                        THEN Secs(DEFAULT_PIR_PROLONG_SECS) ELSE r.pir_hold_secs
    IN  IF d.override_mode
        THEN IF r.switch_hold_secs > prolong_secs
                /\ toggled_elapsed > r.switch_hold_secs - prolong_secs
             THEN [ d EXCEPT !.stop_after = toggled_elapsed + prolong_secs ]
             ELSE d
        ELSE [ d EXCEPT !.stop_after = toggled_elapsed + prolong_secs ]

\* PIR relay branch that holds the relay for switch_hold_secs when it turns it
\* on; the worker uses pir_hold_secs
PirRelaySwitchHold(r, d, new_state, i, on, is_night, flipflop_block, t) ==
    IF PirApplies(r, d, on, is_night)
    THEN IF ~d.override_mode /\ BitSet(new_state, i)
         THEN IF flipflop_block
              THEN [ d |-> d, new_state |-> new_state, set |-> FALSE,
                     lines |-> << Line("warn_flipflop_pir", r.id, 0) >> ]
              ELSE [ d |-> [ d EXCEPT !.stop_after = r.switch_hold_secs ],
                     new_state |-> ClearBit(new_state, i), set |-> TRUE,
                     lines |-> << Line("pir_turning_on", r.id, 0) >> ]
         ELSE [ d |-> PirProlongRelay(r, d, t), new_state |-> new_state, set |-> FALSE,
                lines |-> << Line("pir_prolonging", r.id, 0) >> ]
    ELSE [ d |-> d, new_state |-> new_state, set |-> FALSE, lines |-> << >> ]

\* PIR relay branch that tests the flip-flop protection before it looks at the
\* relay's state; the worker tests it only when it is about to turn the relay on
PirRelayGuardFirst(r, d, new_state, i, on, is_night, flipflop_block, t) ==
    IF PirApplies(r, d, on, is_night)
    THEN IF flipflop_block
         THEN [ d |-> d, new_state |-> new_state, set |-> FALSE,
                lines |-> << Line("warn_flipflop_pir", r.id, 0) >> ]
         ELSE IF ~d.override_mode /\ BitSet(new_state, i)
              THEN [ d |-> [ d EXCEPT !.stop_after = r.pir_hold_secs ],
                     new_state |-> ClearBit(new_state, i), set |-> TRUE,
                     lines |-> << Line("pir_turning_on", r.id, 0) >> ]
              ELSE [ d |-> PirProlongRelay(r, d, t), new_state |-> new_state,
                     set |-> FALSE, lines |-> << Line("pir_prolonging", r.id, 0) >> ]
    ELSE [ d |-> d, new_state |-> new_state, set |-> FALSE, lines |-> << >> ]

\* Switch relay branch without the flip-flop protection
SwitchRelayUnguarded(r, d, new_state, i, flipflop_block) ==
    [ d |-> [ d EXCEPT !.override_mode = TRUE, !.stop_after = r.switch_hold_secs ],
      new_state |-> XorBit(new_state, i), set |-> TRUE,
      lines |-> << Line("switch_toggle", r.id, 0) >> ]

\* Switch relay branch that turns the relay on instead of inverting it
SwitchRelayOnOnly(r, d, new_state, i, flipflop_block) ==
    IF flipflop_block
    THEN [ d |-> d, new_state |-> new_state, set |-> FALSE,
           lines |-> << Line("warn_flipflop_switch", r.id, 0) >> ]
    ELSE [ d |-> [ d EXCEPT !.override_mode = TRUE, !.stop_after = r.switch_hold_secs ],
           new_state |-> ClearBit(new_state, i), set |-> TRUE,
           lines |-> << Line("switch_toggle", r.id, 0) >> ]

\* worker, relay branch "PIR_Trigger"
PirRelay(r, d, new_state, i, on, is_night, flipflop_block, t) ==
    IF PirApplies(r, d, on, is_night)
    THEN IF ~d.override_mode /\ BitSet(new_state, i)
         THEN IF flipflop_block
              THEN [ d |-> d, new_state |-> new_state, set |-> FALSE,
                     lines |-> << Line("warn_flipflop_pir", r.id, 0) >> ]
              ELSE [ d |-> [ d EXCEPT !.stop_after = r.pir_hold_secs ],
                     new_state |-> ClearBit(new_state, i), set |-> TRUE,
                     lines |-> << Line("pir_turning_on", r.id, 0) >> ]
         ELSE [ d |-> PirProlongRelay(r, d, t), new_state |-> new_state, set |-> FALSE,
                lines |-> << Line("pir_prolonging", r.id, 0) >> ]
    ELSE [ d |-> d, new_state |-> new_state, set |-> FALSE, lines |-> << >> ]

\* worker, relay branch "Switch"
SwitchRelay(r, d, new_state, i, flipflop_block) ==
    IF flipflop_block
    THEN [ d |-> d, new_state |-> new_state, set |-> FALSE,
           lines |-> << Line("warn_flipflop_switch", r.id, 0) >> ]
    ELSE [ d |-> [ d EXCEPT !.override_mode = TRUE, !.stop_after = r.switch_hold_secs ],
           new_state |-> XorBit(new_state, i), set |-> TRUE,
           lines |-> << Line("switch_toggle", r.id, 0) >> ]

\* worker, the match on the kind code for one associated relay
RelayTransition(kind_code, r, d, new_state, i, on, is_night, flipflop_block, t) ==
    CASE kind_code = "PIR_Trigger" ->
             PirRelay(r, d, new_state, i, on, is_night, flipflop_block, t)
      [] kind_code = "Switch" -> SwitchRelay(r, d, new_state, i, flipflop_block)
      [] OTHER -> [ d |-> d, new_state |-> new_state, set |-> FALSE,
                    lines |-> << Line("unhandled_kind", r.id, 0) >> ]

\* the duration of a TurnOnProlong task that falls back on pir_hold_secs only
TaskDurationPirHold(r, task) ==
    IF task.duration # None THEN task.duration ELSE r.pir_hold_secs

\* the duration a TurnOnProlong task holds the relay for
TaskDuration(r, task) ==
    IF task.duration # None THEN task.duration
    ELSE IF r.switch_hold_secs # Secs(DEFAULT_SWITCH_HOLD_SECS)
         THEN r.switch_hold_secs ELSE r.pir_hold_secs

\* the external prolonging of a relay that is on or in override mode
TaskProlongRelay(r, d, dur, t) ==
    LET toggled_elapsed == ToggledElapsed(d.last_toggled, t)
    IN  IF d.override_mode
        THEN IF r.switch_hold_secs > Secs(DEFAULT_PIR_PROLONG_SECS)
                /\ toggled_elapsed > r.switch_hold_secs - Secs(DEFAULT_PIR_PROLONG_SECS)
             THEN [ d EXCEPT !.stop_after = toggled_elapsed + Secs(DEFAULT_PIR_PROLONG_SECS) ]
             ELSE d
        ELSE [ d EXCEPT !.stop_after = toggled_elapsed + dur ]

\* TurnOnProlong that turns on a relay that is off whatever its override_mode
TurnOnProlongIgnoresOverride(r, d, new_state, i, task, flipflop_block, t) ==
    LET dur == TaskDuration(r, task)
    IN  IF BitSet(new_state, i)
        THEN IF flipflop_block
             THEN [ d |-> d, new_state |-> new_state, set |-> FALSE,
                    lines |-> << Line("warn_flipflop_external_on", r.id, 0) >> ]
             ELSE [ d |-> [ d EXCEPT !.last_toggled = t, !.stop_after = dur ],
                    new_state |-> ClearBit(new_state, i), set |-> TRUE,
                    lines |-> << Line("external_turning_on", r.id, 0) >> ]
        ELSE [ d |-> TaskProlongRelay(r, d, dur, t), new_state |-> new_state,
               set |-> FALSE, lines |-> << Line("external_prolonging", r.id, 0) >> ]

\* worker, pending task TaskCommand::TurnOnProlong on one matching relay
TurnOnProlong(r, d, new_state, i, task, flipflop_block, t) ==
    LET dur == TaskDuration(r, task)
    IN  IF ~d.override_mode /\ BitSet(new_state, i)
        THEN IF flipflop_block
             THEN [ d |-> d, new_state |-> new_state, set |-> FALSE,
                    lines |-> << Line("warn_flipflop_external_on", r.id, 0) >> ]
             ELSE [ d |-> [ d EXCEPT !.last_toggled = t, !.stop_after = dur ],
                    new_state |-> ClearBit(new_state, i), set |-> TRUE,
                    lines |-> << Line("external_turning_on", r.id, 0) >> ]
        ELSE [ d |-> TaskProlongRelay(r, d, dur, t), new_state |-> new_state,
               set |-> FALSE, lines |-> << Line("external_prolonging", r.id, 0) >> ]

\* TurnOff that leaves override_mode as it is
TurnOffKeepsOverride(r, d, new_state, i, flipflop_block, t) ==
    IF ~BitSet(new_state, i)
    THEN IF flipflop_block
         THEN [ d |-> d, new_state |-> new_state, set |-> FALSE,
                lines |-> << Line("warn_flipflop_external_off", r.id, 0) >> ]
         ELSE [ d |-> [ d EXCEPT !.last_toggled = t, !.stop_after = None ],
                new_state |-> SetBit(new_state, i), set |-> TRUE,
                lines |-> << Line("external_turn_off", r.id, 0),
                             Line("IncrementRelayCounter", r.id, 0) >> ]
    ELSE [ d |-> d, new_state |-> new_state, set |-> FALSE, lines |-> << >> ]

\* worker, pending task TaskCommand::TurnOff on one matching relay
TurnOff(r, d, new_state, i, flipflop_block, t) ==
    IF ~BitSet(new_state, i)
    THEN IF flipflop_block
         THEN [ d |-> d, new_state |-> new_state, set |-> FALSE,
                lines |-> << Line("warn_flipflop_external_off", r.id, 0) >> ]
         ELSE [ d |-> [ d EXCEPT !.last_toggled = t, !.stop_after = None,
                                 !.override_mode = FALSE ],
                new_state |-> SetBit(new_state, i), set |-> TRUE,
                lines |-> << Line("external_turn_off", r.id, 0),
                             Line("IncrementRelayCounter", r.id, 0) >> ]
    ELSE [ d |-> d, new_state |-> new_state, set |-> FALSE, lines |-> << >> ]

\* worker, the match on the command of one task for one matching relay
TaskTransition(r, d, new_state, i, task, flipflop_block, t) ==
    CASE task.command = "TurnOnProlong" ->
             TurnOnProlong(r, d, new_state, i, task, flipflop_block, t)
      [] task.command = "TurnOff" -> TurnOff(r, d, new_state, i, flipflop_block, t)
      [] OTHER -> [ d |-> d, new_state |-> new_state, set |-> FALSE, lines |-> << >> ]

\* the filter selecting the tasks of one relay
TaskMatches(task, r) ==
    IF task.id_relay # None THEN r.id = task.id_relay
    ELSE IF task.tag_group # NoGroup THEN HasTag(r.tags, task.tag_group) ELSE FALSE

\* the sequence without its k-th element
Without(seq, k) == SubSeq(seq, 1, k - 1) \o SubSeq(seq, k + 1, Len(seq))

\* a command thread that, giving up, sets powered_on back
yeelight_tcp_rollback(d, k, ok) ==
    IF ok THEN [ d EXCEPT !.cmds = Without(@, k) ]
    ELSE IF d.cmds[k].failed + 1 < YEELIGHT_ATTEMPTS
         THEN [ d EXCEPT !.cmds[k].failed = @ + 1 ]
         ELSE [ d EXCEPT !.cmds = Without(@, k), !.powered_on = ~d.cmds[k].on ]

\* Yeelight::yeelight_tcp_command, one iteration of `for _ in 1..=3` in the k-th
\* running thread of a yeelight: an answer "ok" ends the thread, a failure
\* (connect, write, answer) leads to the next attempt, the third one ends it.
\* The thread owns copies of the name and the address only.
yeelight_tcp_command(d, k, ok) ==
    IF ok THEN [ d EXCEPT !.cmds = Without(@, k) ]
    ELSE IF d.cmds[k].failed + 1 < YEELIGHT_ATTEMPTS
         THEN [ d EXCEPT !.cmds[k].failed = @ + 1 ]
         ELSE [ d EXCEPT !.cmds = Without(@, k) ]

\* Yeelight::turn_on_off: the command is handed to a spawned thread, and
\* powered_on and last_toggled are set at once; y is [d, lines]
turn_on_off(r, y, turn_on, t) ==
    [ d |-> [ y.d EXCEPT !.powered_on = turn_on, !.last_toggled = t,
                         !.cmds = Append(@, [ on |-> turn_on, failed |-> 0 ]) ],
      lines |-> y.lines \o << Line("yeelight_tcp_command", r.id, SomeBool(turn_on)) >> ]

\* the PIR prolonging of a yeelight that is on or in override mode
PirProlongYeelight(r, d, t) ==
    LET toggled_elapsed == ToggledElapsed(d.last_toggled, t)
    IN  IF d.override_mode
        THEN IF r.switch_hold_secs > Secs(DEFAULT_PIR_PROLONG_SECS)
                /\ toggled_elapsed > r.switch_hold_secs - Secs(DEFAULT_PIR_PROLONG_SECS)
             THEN [ d EXCEPT !.stop_after = toggled_elapsed + Secs(DEFAULT_PIR_PROLONG_SECS) ]
             ELSE d
        ELSE [ d EXCEPT !.stop_after = toggled_elapsed + r.pir_hold_secs ]

\* worker, yeelight branch "PIR_Trigger": [d, lines]
PirYeelight(r, d, on, is_night, flipflop_block, t) ==
    IF PirApplies(r, d, on, is_night)
    THEN IF ~d.override_mode /\ ~d.powered_on
         THEN IF flipflop_block
              THEN [ d |-> d, lines |-> << Line("warn_flipflop_yeelight_pir", r.id, 0) >> ]
              ELSE LET y == turn_on_off(r, [ d |-> [ d EXCEPT !.stop_after = r.pir_hold_secs ],
                                             lines |-> << >> ], TRUE, t)
                   IN  [ d |-> y.d,
                         lines |-> y.lines \o << Line("IncrementYeelightCounter", r.id, 0) >> ]
         ELSE [ d |-> PirProlongYeelight(r, d, t),
                lines |-> << Line("yeelight_prolonging", r.id, 0) >> ]
    ELSE [ d |-> d, lines |-> << >> ]

\* worker, yeelight branch "Switch": [d, lines]
SwitchYeelight(r, d, flipflop_block, t) ==
    IF flipflop_block
    THEN [ d |-> d, lines |-> << Line("warn_flipflop_yeelight_switch", r.id, 0) >> ]
    ELSE LET y == turn_on_off(r, [ d |-> [ d EXCEPT !.override_mode = TRUE,
                                                     !.stop_after = r.switch_hold_secs ],
                                   lines |-> << >> ], ~d.powered_on, t)
         IN  [ d |-> y.d,
               lines |-> y.lines \o << Line("IncrementYeelightCounter", r.id, 0) >> ]

\* worker, the match on the kind code for one associated yeelight
YeelightTransition(kind_code, r, d, on, is_night, flipflop_block, t) ==
    CASE kind_code = "PIR_Trigger" -> PirYeelight(r, d, on, is_night, flipflop_block, t)
      [] kind_code = "Switch" -> SwitchYeelight(r, d, flipflop_block, t)
      [] OTHER -> [ d |-> d, lines |-> << Line("unhandled_kind_yeelight", r.id, 0) >> ]

\* auto turn-off condition without the minimum toggle delay
SweepDueNoMinDelay(d, t) ==
    /\ d.last_toggled # None
    /\ d.stop_after # None
    /\ t - d.last_toggled > d.stop_after

\* the auto turn-off condition of the sweep
SweepDue(d, t) ==
    /\ d.last_toggled # None
    /\ d.stop_after # None
    /\ t - d.last_toggled > Secs(MIN_TOGGLE_DELAY_SECS)
    /\ t - d.last_toggled > d.stop_after

\* auto turn-off of one relay that clears last_toggled of a relay it turns off
SweepRelayClearsStamp(r, d, new_state, i, t) ==
    IF SweepDue(d, t)
    THEN IF ~BitSet(new_state, i)
         THEN [ d |-> [ d EXCEPT !.last_toggled = None, !.stop_after = None,
                                 !.override_mode = FALSE ],
                new_state |-> SetBit(new_state, i), set |-> TRUE,
                lines |-> << Line("auto_turn_off", r.id, 0),
                             Line("IncrementRelayCounter", r.id, 0) >> ]
         ELSE [ d |-> [ d EXCEPT !.last_toggled = None, !.stop_after = None,
                                 !.override_mode = FALSE ],
                new_state |-> new_state, set |-> FALSE,
                lines |-> IF d.override_mode
                          THEN << Line("end_of_override_mode", r.id, 0) >> ELSE << >> ]
    ELSE [ d |-> d, new_state |-> new_state, set |-> FALSE, lines |-> << >> ]

\* auto turn-off that passes over the relays in override mode
SweepRelayTimedOnly(r, d, new_state, i, t) ==
    IF SweepDue(d, t) /\ ~d.override_mode
    THEN IF ~BitSet(new_state, i)
         THEN [ d |-> [ d EXCEPT !.last_toggled = t, !.stop_after = None,
                                 !.override_mode = FALSE ],
                new_state |-> SetBit(new_state, i), set |-> TRUE,
                lines |-> << Line("auto_turn_off", r.id, 0),
                             Line("IncrementRelayCounter", r.id, 0) >> ]
         ELSE [ d |-> [ d EXCEPT !.last_toggled = None, !.stop_after = None,
                                 !.override_mode = FALSE ],
                new_state |-> new_state, set |-> FALSE, lines |-> << >> ]
    ELSE [ d |-> d, new_state |-> new_state, set |-> FALSE, lines |-> << >> ]

\* worker, auto turn-off of one relay: [d, new_state, set, lines]
SweepRelay(r, d, new_state, i, t) ==
    IF SweepDue(d, t)
    THEN IF ~BitSet(new_state, i)
         THEN [ d |-> [ d EXCEPT !.last_toggled = t, !.stop_after = None,
                                 !.override_mode = FALSE ],
                new_state |-> SetBit(new_state, i), set |-> TRUE,
                lines |-> << Line("auto_turn_off", r.id, 0),
                             Line("IncrementRelayCounter", r.id, 0) >> ]
         ELSE [ d |-> [ d EXCEPT !.last_toggled = None, !.stop_after = None,
                                 !.override_mode = FALSE ],
                new_state |-> new_state, set |-> FALSE,
                lines |-> IF d.override_mode
                          THEN << Line("end_of_override_mode", r.id, 0) >> ELSE << >> ]
    ELSE [ d |-> d, new_state |-> new_state, set |-> FALSE, lines |-> << >> ]

\* worker, auto turn-off of one yeelight: [d, lines]
SweepYeelight(r, d, t) ==
    IF SweepDue(d, t)
    THEN IF d.powered_on
         THEN LET y == turn_on_off(r, [ d |-> d, lines |-> << Line("yeelight_auto_turn_off", r.id, 0) >> ], FALSE, t)
              IN  [ d |-> [ y.d EXCEPT !.stop_after = None, !.override_mode = FALSE ],
                    lines |-> y.lines \o << Line("IncrementYeelightCounter", r.id, 0) >> ]
         ELSE [ d |-> [ d EXCEPT !.last_toggled = None, !.stop_after = None,
                                 !.override_mode = FALSE ],
                lines |-> IF d.override_mode
                          THEN << Line("yeelight_end_of_override_mode", r.id, 0) >>
                          ELSE << >> ]
    ELSE [ d |-> d, lines |-> << >> ]

(***************************************************************************)
(* Relay boards.  A registry state is the record acc = [new, last, rel,    *)
(* log]: new_value and last_value per board, the relays' mutable fields    *)
(* per relay id, and the lines emitted.                                    *)
(***************************************************************************)
RelayBoards == conf.relay_dev.relay_boards
SensorBoards == conf.sensor_dev.sensor_boards
Yeelights == conf.relay_dev.yeelight

\* the set of relay board indices
RelayBoardIds == 1..Len(RelayBoards)

\* a base value that forgets the byte written last
BaseValueInitial(new_value, last_value) ==
    IF new_value # None THEN new_value ELSE DS2408_INITIAL_STATE

\* `match rb.new_value { Some(val) => val, None => rb.last_value.unwrap_or(..) }`
BaseValue(new_value, last_value) ==
    IF new_value # None THEN new_value
    ELSE IF last_value # None THEN last_value ELSE DS2408_INITIAL_STATE

\* save_state that leaves the staged byte in place after a successful write
save_state_keeps_stage(acc, b, ok) ==
    IF acc.new[b] = None THEN acc
    ELSE IF ok
         THEN [ acc EXCEPT !.last[b] = acc.new[b],
                           !.log = acc.log \o << Line("write", b, acc.new[b]) >> ]
         ELSE [ acc EXCEPT !.log = acc.log \o << Line("write_error", b, acc.new[b]) >> ]

\* save_state that gives a failed write up: the stage is dropped
save_state_drops_failed(acc, b, ok) ==
    IF acc.new[b] = None THEN acc
    ELSE IF ok
         THEN [ acc EXCEPT !.last[b] = acc.new[b], !.new[b] = None,
                           !.log = acc.log \o << Line("write", b, acc.new[b]) >> ]
         ELSE [ acc EXCEPT !.new[b] = None,
                           !.log = acc.log \o << Line("write_error", b, acc.new[b]) >> ]

\* RelayBoard::save_state of board b; ok: the open and the write succeed
save_state(acc, b, ok) ==
    IF acc.new[b] = None THEN acc
    ELSE IF ok
         THEN [ acc EXCEPT !.last[b] = acc.new[b], !.new[b] = None,
                           !.log = acc.log \o << Line("write", b, acc.new[b]) >> ]
         ELSE [ acc EXCEPT !.log = acc.log \o << Line("write_error", b, acc.new[b]) >> ]

\* the result of a transition [d, new_state, set, lines] of the relay at bit i
\* of board b stored into the registry
Store(acc, b, id_relay, res) ==
    [ acc EXCEPT !.rel[id_relay] = res.d,
                 !.new[b] = IF res.set THEN res.new_state ELSE acc.new[b],
                 !.log = acc.log \o res.lines ]

\* Vec::contains
SeqContains(seq, x) == \E k \in 1..Len(seq) : seq[k] = x

RECURSIVE WireRelays(_, _, _, _, _)
\* worker, "trigger actions for relays": the loops over the relay boards and
\* their bits, from slot n on (slot n is bit n % 8 of board n \div 8 + 1)
WireRelays(acc, n, kind_code, on, sensor) ==
    IF n >= 8 * Len(RelayBoards) THEN acc
    ELSE LET b == (n \div 8) + 1
             i == n % 8
             r == RelayBoards[b].relay[i]
         IN  IF r.id = None \/ ~SeqContains(sensor.associated_relays, r.id)
             THEN WireRelays(acc, n + 1, kind_code, on, sensor)
             ELSE LET d    == acc.rel[r.id]
                      ffb  == FlipFlopBlock(d.last_toggled, now)
                      hook == relay_hook(kind_code, on, r.tags, night, r.id)
                      res  == RelayTransition(kind_code, r, d,
                                              BaseValue(acc.new[b], acc.last[b]), i, on,
                                              night, ffb, now)
                  IN  IF ~hook.ret
                      THEN WireRelays([ acc EXCEPT !.log = acc.log \o
                                          << Line("relay_stopped_processing", r.id, 0) >> ],
                                      n + 1, kind_code, on, sensor)
                      ELSE WireRelays(Store([ acc EXCEPT !.log = acc.log \o hook.lines ],
                                            b, r.id, res),
                                      n + 1, kind_code, on, sensor)

RECURSIVE WireYeelights(_, _, _, _, _)
\* worker, "trigger actions for yeelights", from yeelight k on; yacc is [yl, log]
WireYeelights(yacc, k, kind_code, on, sensor) ==
    IF k > Len(Yeelights) THEN yacc
    ELSE LET r == Yeelights[k]
         IN  IF ~SeqContains(sensor.associated_yeelights, r.id) \/ ~yeelight_hook
             THEN WireYeelights(yacc, k + 1, kind_code, on, sensor)
             ELSE LET d   == yacc.yl[r.id]
                      res == YeelightTransition(kind_code, r, d, on, night,
                                                FlipFlopBlock(d.last_toggled, now), now)
                  IN  WireYeelights([ yl |-> [ yacc.yl EXCEPT ![r.id] = res.d ],
                                      log |-> yacc.log \o res.lines ],
                                    k + 1, kind_code, on, sensor)

RECURSIVE StampToggled(_, _, _, _)
\* the loop stamping last_toggled on the relays of board b whose bit changed
StampToggled(acc, b, i, old_value) ==
    IF i > 7 THEN acc
    ELSE LET r == RelayBoards[b].relay[i]
         IN  IF BitSet(acc.new[b], i) # BitSet(old_value, i) /\ r.id # None
             THEN StampToggled([ acc EXCEPT
                                   !.rel[r.id].last_toggled = now,
                                   !.log = acc.log \o
                                       << Line("IncrementRelayCounter", r.id, 0) >> ],
                               b, i + 1, old_value)
             ELSE StampToggled(acc, b, i + 1, old_value)

RECURSIVE FlushBoards(_, _, _)
\* worker, "iteration over all boards that has changed state and needs a
\* save_state()", from board b on; the writes of the boards in okset succeed
FlushBoards(acc, b, okset) ==
    IF b > Len(RelayBoards) THEN acc
    ELSE LET old_value == IF acc.last[b] # None THEN acc.last[b] ELSE DS2408_INITIAL_STATE
         IN  IF acc.new[b] # None /\ acc.new[b] # old_value
             THEN FlushBoards(save_state(StampToggled(acc, b, 0, old_value), b, b \in okset),
                              b + 1, okset)
             ELSE FlushBoards(acc, b + 1, okset)

RECURSIVE AllNightTagsFlipFlop(_, _, _, _, _, _)
\* the all_night loop that leaves a relay toggled less than a second ago alone
AllNightTagsFlipFlop(res, r, k, i, is_night, t) ==
    IF k > Len(r.tags) THEN res
    ELSE IF TagIs(r.tags[k], "all_night")
              /\ ~(res.d.last_toggled # None
                    /\ t - res.d.last_toggled < Secs(MIN_TOGGLE_DELAY_SECS))
         THEN AllNightTagsFlipFlop(
                  [ d |-> [ res.d EXCEPT !.last_toggled = t, !.stop_after = None ],
                    new_state |-> IF is_night THEN ClearBit(res.new_state, i)
                                  ELSE SetBit(res.new_state, i),
                    set |-> TRUE,
                    lines |-> res.lines \o
                        << Line("day_night_auto_turn", r.id, 0),
                           Line("IncrementRelayCounter", r.id, 0) >> ],
                  r, k + 1, i, is_night, t)
         ELSE AllNightTagsFlipFlop(res, r, k + 1, i, is_night, t)

RECURSIVE AllNightTags(_, _, _, _, _, _)
\* day/night change, the loop over the tags of one relay from tag k on:
\* [d, new_state, set, lines]
AllNightTags(res, r, k, i, is_night, t) ==
    IF k > Len(r.tags) THEN res
    ELSE IF TagIs(r.tags[k], "all_night")
         THEN AllNightTags([ d |-> [ res.d EXCEPT !.last_toggled = t, !.stop_after = None ],
                             new_state |-> IF is_night THEN ClearBit(res.new_state, i)
                                           ELSE SetBit(res.new_state, i),
                             set |-> TRUE,
                             lines |-> res.lines \o
                                 << Line("day_night_auto_turn", r.id, 0),
                                    Line("IncrementRelayCounter", r.id, 0) >> ],
                           r, k + 1, i, is_night, t)
         ELSE AllNightTags(res, r, k + 1, i, is_night, t)

RECURSIVE DayNightBoards(_, _, _, _)
\* day/night change, the loops over the boards and their relays from slot n on;
\* every board is saved after its last relay
DayNightBoards(acc, n, is_night, okset) ==
    IF n >= 8 * Len(RelayBoards) THEN acc
    ELSE LET b == (n \div 8) + 1
             i == n % 8
             r == RelayBoards[b].relay[i]
             res == AllNightTags([ d |-> acc.rel[r.id],
                                   new_state |-> BaseValue(acc.new[b], acc.last[b]),
                                   set |-> FALSE, lines |-> << >> ], r, 1, i, is_night, now)
             acc1 == IF r.id = None THEN acc ELSE Store(acc, b, r.id, res)
             acc2 == IF i = 7 THEN save_state(acc1, b, b \in okset) ELSE acc1
         IN  DayNightBoards(acc2, n + 1, is_night, okset)

RECURSIVE SweepBoards(_, _, _)
\* auto turn-off sweep of the relays, from slot n on; every board is saved
\* after its last relay
SweepBoards(acc, n, okset) ==
    IF n >= 8 * Len(RelayBoards) THEN acc
    ELSE LET b == (n \div 8) + 1
             i == n % 8
             r == RelayBoards[b].relay[i]
             acc1 == IF r.id = None THEN acc
                     ELSE Store(acc, b, r.id,
                                SweepRelay(r, acc.rel[r.id],
                                           BaseValue(acc.new[b], acc.last[b]), i, now))
             acc2 == IF i = 7 THEN save_state(acc1, b, b \in okset) ELSE acc1
         IN  SweepBoards(acc2, n + 1, okset)

RECURSIVE SweepYeelights(_, _)
\* auto turn-off sweep of the yeelights, from yeelight k on; yacc is [yl, log]
SweepYeelights(yacc, k) ==
    IF k > Len(Yeelights) THEN yacc
    ELSE LET r   == Yeelights[k]
             res == SweepYeelight(r, yacc.yl[r.id], now)
         IN  SweepYeelights([ yl |-> [ yacc.yl EXCEPT ![r.id] = res.d ],
                              log |-> yacc.log \o res.lines ], k + 1)

RECURSIVE RfidTagTags(_, _, _, _, _)
\* process_rfid_tags, the loop over the tags of a matched rfid tag from tag k on
RfidTagTags(sm, rfid_tag, k, is_night, t) ==
    IF k > Len(rfid_tag.tags) THEN sm
    ELSE LET tag == rfid_tag.tags[k]
             delay == IF Len(tag) >= 2 THEN ParseSecs(tag[2]) ELSE None
         IN  IF ~StartsWith(tag, "wicket_gate")
             THEN RfidTagTags(sm, rfid_tag, k + 1, is_night, t)
             ELSE IF delay = None
                  THEN RfidTagTags([ sm EXCEPT !.log = sm.log \o
                                       << Line("error_wicket_gate_delay", rfid_tag.id_tag, 0) >> ],
                                   rfid_tag, k + 1, is_night, t)
                  ELSE RfidTagTags(
                           [ sm EXCEPT
                               !.started = t,
                               !.delay = delay,
                               !.relays = rfid_tag.associated_relays,
                               !.pending = sm.pending \o
                                   (IF is_night THEN << EntryLightTask >> ELSE << >>),
                               !.log = sm.log \o
                                   << Line("enabling_wicket_gate", rfid_tag.id_tag, delay) >>
                                   \o (IF conf.ethlcd
                                       THEN << Line("beep_confirmation", 0, 0) >>
                                       ELSE << >>) ],
                           rfid_tag, k + 1, is_night, t)

\* process_rfid_tags, one pending id
RfidId(sm, id, is_night, t) ==
    LET idx == { j \in 1..Len(conf.rfid_tags) : conf.rfid_tags[j].id_tag = id }
    IN  IF idx = { } THEN sm
        ELSE LET rfid_tag == conf.rfid_tags[CHOOSE j \in idx : \A j2 \in idx : j <= j2]
             IN  IF rfid_tag.tags # << >>
                 THEN RfidTagTags(sm, rfid_tag, 1, is_night, t)
                 ELSE [ sm EXCEPT !.pending = sm.pending \o
                                      ProlongTasks(rfid_tag.associated_relays) ]

RECURSIVE RfidIds(_, _, _, _, _)
\* process_rfid_tags, the loop over the pending ids from index j on
RfidIds(sm, queue, j, is_night, t) ==
    IF j > Len(queue) THEN sm
    ELSE RfidIds(RfidId(sm, queue[j], is_night, t), queue, j + 1, is_night, t)

\* process_rfid_tags that handles the first pending id only
process_first_rfid_tag(sm, queue, is_night, t) ==
    IF queue = << >> THEN sm ELSE RfidId(sm, queue[1], is_night, t)

\* StateMachine::process_rfid_tags: the state machine afterwards (the queue is
\* cleared by the caller of this operator, under the same write lock)
process_rfid_tags(sm, queue, is_night, t) == RfidIds(sm, queue, 1, is_night, t)

RECURSIVE TaskWorkFirstTask(_, _, _)
\* the pending-task block that looks at the first pending task only
TaskWorkFirstTask(tasks, n, k) ==
    IF n >= 8 * Len(RelayBoards) THEN << >>
    ELSE LET b == (n \div 8) + 1
             i == n % 8
             r == RelayBoards[b].relay[i]
         IN  IF r.id = None \/ k > 1 \/ k > Len(tasks)
             THEN (IF i = 7 THEN << [ b |-> b, i |-> 8, k |-> 0 ] >> ELSE << >>)
                  \o TaskWorkFirstTask(tasks, n + 1, 1)
             ELSE (IF TaskMatches(tasks[k], r)
                   THEN << [ b |-> b, i |-> i, k |-> k ] >> ELSE << >>)
                  \o TaskWorkFirstTask(tasks, n, k + 1)

RECURSIVE TaskWork(_, _, _)
\* the pending-task block as a work list, in the order of its loops: for every
\* board, for every relay, the tasks that match it ([b, i, k]: task k on bit i),
\* then the save_state of the board ([b, 8, 0])
TaskWork(tasks, n, k) ==
    IF n >= 8 * Len(RelayBoards) THEN << >>
    ELSE LET b == (n \div 8) + 1
             i == n % 8
             r == RelayBoards[b].relay[i]
         IN  IF r.id = None \/ k > Len(tasks)
             THEN (IF i = 7 THEN << [ b |-> b, i |-> 8, k |-> 0 ] >> ELSE << >>)
                  \o TaskWork(tasks, n + 1, 1)
             ELSE (IF TaskMatches(tasks[k], r)
                   THEN << [ b |-> b, i |-> i, k |-> k ] >> ELSE << >>)
                  \o TaskWork(tasks, n, k + 1)

(***************************************************************************)
(* The worker                                                              *)
(***************************************************************************)
\* the state machine as the hooks see it
SM ==
    [ bedroom_mode |-> bedroom_mode, started |-> wicket_gate_started,
      delay |-> wicket_gate_delay, relays |-> wicket_gate_relays,
      level |-> cesspool_level, pending |-> pending_tasks, log |-> log,
      panic |-> FALSE ]

\* the state machine stored back
SetSM(sm) ==
    /\ bedroom_mode' = sm.bedroom_mode
    /\ wicket_gate_started' = sm.started
    /\ wicket_gate_delay' = sm.delay
    /\ wicket_gate_relays' = sm.relays
    /\ cesspool_level' = sm.level
    /\ pending_tasks' = sm.pending
    /\ log' = sm.log

\* the registry of the relay boards
Acc == [ new |-> rb_new, last |-> rb_last, rel |-> rel, log |-> log ]

\* the outcomes of the board writes of one step: the set of boards whose file
\* opens and takes the byte
WriteOutcomes == IF conf.io_fail THEN SUBSET RelayBoardIds ELSE { RelayBoardIds }

\* the sensor at a bit of a sensor board
SensorAt(board, bit) == IF bit = 0 THEN board.pio_a ELSE board.pio_b

\* after the board cur_sb: the next board, or the day/night check
NextBoard ==
    IF cur_sb < Len(SensorBoards)
    THEN pc' = "read" /\ cur_sb' = cur_sb + 1
    ELSE pc' = "daynight" /\ cur_sb' = 0

\* a worker that never sees the cancellation flag set
CancelledNever == FALSE

\* worker_cancel_flag.load(Ordering::SeqCst) at the top of the loop
Cancelled == cancel

\* a received task is pushed whatever its command and the time of day
ReceivedAnyTime(pending, task, is_night) ==
    Append(pending, [ task EXCEPT !.command =
                         IF @ = "TurnOnProlongNight" THEN "TurnOnProlong" ELSE @ ])

\* only the turn-on tasks that are received are pushed
ReceivedTurnOnOnly(pending, task, is_night) ==
    IF task.command = "TurnOnProlongNight"
    THEN IF is_night
         THEN Append(pending, [ task EXCEPT !.command = "TurnOnProlong" ])
         ELSE pending
    ELSE IF task.command = "TurnOnProlong" THEN Append(pending, task) ELSE pending

\* worker, the match on the command of a task received from the channel
Received(pending, task, is_night) ==
    IF task.command = "TurnOnProlongNight"
    THEN IF is_night
         THEN Append(pending, [ task EXCEPT !.command = "TurnOnProlong" ])
         ELSE pending
    ELSE Append(pending, task)

\* top of the loop: the cancellation check, try_recv of one external task,
\* the registry locks, the resize of the cesspool level vector
Recv ==
    /\ pc = "recv"
    /\ IF Cancelled
       THEN /\ pc' = "stopped"
            /\ UNCHANGED << cur_sb, ow_channel, pending_tasks, cesspool_level, log >>
       ELSE /\ IF ow_channel = << >>
               THEN UNCHANGED << ow_channel, pending_tasks >>
               ELSE /\ ow_channel' = Tail(ow_channel)
                    /\ pending_tasks' = Received(pending_tasks, Head(ow_channel), night)
            /\ cesspool_level' = resize_level(cesspool_level,
                                              conf.sensor_dev.max_cesspool_level)
            /\ log' = << >>
            /\ IF Len(SensorBoards) > 0
               THEN pc' = "read" /\ cur_sb' = 1
               ELSE pc' = "daynight" /\ cur_sb' = 0
    /\ UNCHANGED << conf, now, ticks, cur_val, cur_bit, cur_task, sb_last, sb_raw, rb_new,
                    rb_last, rel, yl, bedroom_mode, wicket_gate_started,
                    wicket_gate_delay, wicket_gate_relays, rfid_pending_tags, night,
                    night_check, cancel >>

RECURSIVE InitialHooks(_, _, _, _)
\* first read of a board: sensor_hook with initial_read = true for the
\* populated slots, from bit index j on
InitialHooks(sm, board, new_value, j) ==
    IF j > Len(bits) \/ sm.panic THEN sm
    ELSE LET sensor == SensorAt(board, bits[j])
         IN  IF sensor.id = None THEN InitialHooks(sm, board, new_value, j + 1)
             ELSE IF sensor.id_kind \notin DOMAIN conf.kinds
                  THEN [ sm EXCEPT !.panic = TRUE ]
                  ELSE InitialHooks(
                           sensor_hook(sm, conf.kinds[sensor.id_kind],
                                       BitSet(new_value, bits[j]), sensor.tags, night,
                                       TRUE, sensor.id, now).sm,
                           board, new_value, j + 1)

\* read_state of the board cur_sb and the match on last_value
Read ==
    /\ pc = "read"
    /\ \E raw \in conf.raw_bytes :
         LET new_value == read_state(raw)
         IN  /\ sb_raw' = [ sb_raw EXCEPT ![cur_sb] = raw ]
             /\ IF new_value = None
                THEN NextBoard /\ UNCHANGED << cur_val, cur_bit, sb_last, bedroom_mode,
                         wicket_gate_started, wicket_gate_delay, wicket_gate_relays,
                         cesspool_level, pending_tasks, log >>
                ELSE IF sb_last[cur_sb] = None
                     THEN LET sm == InitialHooks(SM, SensorBoards[cur_sb], new_value, 1)
                          IN  /\ SetSM(sm)
                              /\ IF sm.panic
                                 THEN pc' = "panicked" /\ UNCHANGED << cur_sb, sb_last >>
                                 ELSE /\ NextBoard
                                      /\ sb_last' = [ sb_last EXCEPT ![cur_sb] = new_value ]
                              /\ UNCHANGED << cur_val, cur_bit >>
                     ELSE IF sb_last[cur_sb] = new_value
                          THEN NextBoard /\ UNCHANGED << cur_val, cur_bit, sb_last,
                                   bedroom_mode, wicket_gate_started, wicket_gate_delay,
                                   wicket_gate_relays, cesspool_level, pending_tasks, log >>
                          ELSE /\ pc' = "event"
                               /\ cur_val' = new_value
                               /\ cur_bit' = 1
                               /\ UNCHANGED << cur_sb, sb_last, bedroom_mode,
                                      wicket_gate_started, wicket_gate_delay,
                                      wicket_gate_relays, cesspool_level, pending_tasks,
                                      log >>
    /\ UNCHANGED << conf, now, ticks, cur_task, rb_new, rb_last, rel, yl, ow_channel,
                    rfid_pending_tags, night, night_check, cancel >>

\* the event wired to the relays and yeelights whatever sensor_hook returns
EventResultIgnoresHook ==
    LET bit    == bits[cur_bit]
        sensor == SensorAt(SensorBoards[cur_sb], bit)
        on     == BitSet(cur_val, bit)
        sm0    == [ SM EXCEPT !.log = log \o << Line("IncrementSensorCounter", sensor.id, 0) >> ]
        same   == [ sm |-> SM, new |-> rb_new, rel |-> rel, yl |-> yl ]
    IN  IF on = BitSet(sb_last[cur_sb], bit) \/ sensor.id = None THEN same
        ELSE IF sensor.id_kind \notin DOMAIN conf.kinds
             THEN [ same EXCEPT !.sm = [ sm0 EXCEPT !.panic = TRUE ] ]
             ELSE LET kind_code == conf.kinds[sensor.id_kind]
                      h   == sensor_hook(sm0, kind_code, on, sensor.tags, night, FALSE,
                                         sensor.id, now)
                      sm1 == [ h.sm EXCEPT !.log = h.sm.log \o
                                 << Line("stop_processing", sensor.id, SomeBool(~h.ret)) >> ]
                      acc == WireRelays([ Acc EXCEPT !.log = sm1.log ], 0, kind_code, on,
                                        sensor)
                      yacc == WireYeelights([ yl |-> yl, log |-> acc.log ], 1, kind_code,
                                            on, sensor)
                  IN  IF h.sm.panic
                      THEN [ same EXCEPT !.sm = sm1 ]
                      ELSE [ sm |-> [ sm1 EXCEPT !.log = yacc.log ], new |-> acc.new,
                             rel |-> acc.rel, yl |-> yacc.yl ]

\* one iteration of `for bit in &bits` of a changed board: the sensor event of
\* that bit, if the bit changed and a sensor is attached: sensor_hook, then the
\* event wired to the associated relays and yeelights
EventResult ==
    LET bit    == bits[cur_bit]
        sensor == SensorAt(SensorBoards[cur_sb], bit)
        on     == BitSet(cur_val, bit)
        sm0    == [ SM EXCEPT !.log = log \o << Line("IncrementSensorCounter", sensor.id, 0) >> ]
        same   == [ sm |-> SM, new |-> rb_new, rel |-> rel, yl |-> yl ]
    IN  IF on = BitSet(sb_last[cur_sb], bit) \/ sensor.id = None THEN same
        ELSE IF sensor.id_kind \notin DOMAIN conf.kinds
             THEN [ same EXCEPT !.sm = [ sm0 EXCEPT !.panic = TRUE ] ]
             ELSE LET kind_code == conf.kinds[sensor.id_kind]
                      h   == sensor_hook(sm0, kind_code, on, sensor.tags, night, FALSE,
                                         sensor.id, now)
                      sm1 == [ h.sm EXCEPT !.log = h.sm.log \o
                                 << Line("stop_processing", sensor.id, SomeBool(~h.ret)) >> ]
                      acc == WireRelays([ Acc EXCEPT !.log = sm1.log ], 0, kind_code, on,
                                        sensor)
                      yacc == WireYeelights([ yl |-> yl, log |-> acc.log ], 1, kind_code,
                                            on, sensor)
                  IN  IF h.sm.panic \/ ~h.ret
                      THEN [ same EXCEPT !.sm = sm1 ]
                      ELSE [ sm |-> [ sm1 EXCEPT !.log = yacc.log ], new |-> acc.new,
                             rel |-> acc.rel, yl |-> yacc.yl ]

Event ==
    /\ pc = "event"
    /\ \E res \in { EventResult } :
           /\ SetSM(res.sm)
           /\ rb_new' = res.new
           /\ rel' = res.rel
           /\ yl' = res.yl
           /\ IF res.sm.panic
              THEN pc' = "panicked" /\ UNCHANGED cur_bit
              ELSE IF cur_bit < Len(bits)
                   THEN pc' = "event" /\ cur_bit' = cur_bit + 1
                   ELSE pc' = "flush" /\ cur_bit' = 0
    /\ UNCHANGED << conf, now, ticks, cur_sb, cur_val, cur_task, sb_last, sb_raw, rb_last,
                    ow_channel, rfid_pending_tags, night, night_check, cancel >>

\* end of a changed board: the relay boards whose staged byte differs from the
\* written one are stamped and saved, and the board's last_value is set
Flush ==
    /\ pc = "flush"
    /\ \E okset \in WriteOutcomes :
         LET acc == FlushBoards(Acc, 1, okset)
         IN  /\ rb_new' = acc.new
             /\ rb_last' = acc.last
             /\ rel' = acc.rel
             /\ log' = acc.log
    /\ sb_last' = [ sb_last EXCEPT ![cur_sb] = cur_val ]
    /\ cur_val' = None
    /\ NextBoard
    /\ UNCHANGED << conf, now, ticks, cur_bit, cur_task, sb_raw, yl, bedroom_mode,
                    wicket_gate_started, wicket_gate_delay, wicket_gate_relays,
                    cesspool_level, pending_tasks, ow_channel, rfid_pending_tags, night,
                    night_check, cancel >>

\* "checking day/night": every SUN_POS_CHECK_INTERVAL_SECS the sun position
\* (an input) gives new_night; on a change the all_night relays are forced
DayNight ==
    /\ pc = "daynight"
    /\ pc' = "rfid"
    /\ IF night_check # None /\ now - night_check > Secs(SUN_POS_CHECK_INTERVAL_SECS)
       THEN /\ night_check' = now
            /\ \E new_night \in conf.sun :
                 /\ night' = new_night
                 /\ IF night # new_night
                    THEN \E okset \in WriteOutcomes :
                           LET acc == DayNightBoards(Acc, 0, new_night, okset)
                           IN  /\ rb_new' = acc.new
                               /\ rb_last' = acc.last
                               /\ rel' = acc.rel
                               /\ log' = acc.log
                    ELSE UNCHANGED << rb_new, rb_last, rel, log >>
       ELSE UNCHANGED << night_check, night, rb_new, rb_last, rel, log >>
    /\ UNCHANGED << conf, now, ticks, cur_sb, cur_val, cur_bit, cur_task, sb_last, sb_raw,
                    yl, bedroom_mode, wicket_gate_started, wicket_gate_delay,
                    wicket_gate_relays, cesspool_level, pending_tasks, ow_channel,
                    rfid_pending_tags, cancel >>

\* process_rfid_tags, then the test `if !pending_tasks.is_empty()`
Rfid ==
    /\ pc = "rfid"
    /\ LET sm == process_rfid_tags(SM, rfid_pending_tags, night, now)
       IN  /\ wicket_gate_started' = sm.started
           /\ wicket_gate_delay' = sm.delay
           /\ wicket_gate_relays' = sm.relays
           /\ log' = sm.log
           /\ IF sm.pending = << >>
              THEN pc' = "sweep" /\ cur_task' = 0 /\ pending_tasks' = << >>
              ELSE IF TaskWork(sm.pending, 0, 1) = << >>
                   THEN pc' = "sweep" /\ cur_task' = 0 /\ pending_tasks' = << >>
                   ELSE pc' = "apply" /\ cur_task' = 1 /\ pending_tasks' = sm.pending
    /\ rfid_pending_tags' = << >>
    /\ UNCHANGED << conf, now, ticks, cur_sb, cur_val, cur_bit, sb_last, sb_raw, rb_new,
                    rb_last, rel, yl, bedroom_mode, cesspool_level, ow_channel, night,
                    night_check, cancel >>

\* "checking for pending tasks": one item of the work list, a task applied to
\* a relay it matches or the save_state of a board; after the last item the
\* list of pending tasks is cleared
Apply ==
    /\ pc = "apply"
    /\ LET work == TaskWork(pending_tasks, 0, 1)
           item == work[cur_task]
           b    == item.b
       IN  /\ IF item.i = 8
              THEN \E ok \in (IF conf.io_fail THEN BOOLEAN ELSE { TRUE }) :
                     LET acc == save_state(Acc, b, ok)
                     IN  /\ rb_new' = acc.new
                         /\ rb_last' = acc.last
                         /\ rel' = acc.rel
                         /\ log' = acc.log
              ELSE LET r   == RelayBoards[b].relay[item.i]
                       d   == rel[r.id]
                       acc == Store(Acc, b, r.id,
                                    TaskTransition(r, d, BaseValue(rb_new[b], rb_last[b]),
                                                   item.i, pending_tasks[item.k],
                                                   FlipFlopBlock(d.last_toggled, now), now))
                   IN  /\ rb_new' = acc.new
                       /\ rb_last' = acc.last
                       /\ rel' = acc.rel
                       /\ log' = acc.log
           /\ IF cur_task = Len(work)
              THEN pc' = "sweep" /\ cur_task' = 0 /\ pending_tasks' = << >>
              ELSE pc' = "apply" /\ cur_task' = cur_task + 1 /\ UNCHANGED pending_tasks
    /\ UNCHANGED << conf, now, ticks, cur_sb, cur_val, cur_bit, sb_last, sb_raw, yl,
                    bedroom_mode, wicket_gate_started, wicket_gate_delay,
                    wicket_gate_relays, cesspool_level, ow_channel, rfid_pending_tags,
                    night, night_check, cancel >>

\* "checking for auto turn-off of necessary relays"
Sweep ==
    /\ pc = "sweep"
    /\ pc' = "ysweep"
    /\ \E okset \in WriteOutcomes :
         LET acc == SweepBoards(Acc, 0, okset)
         IN  /\ rb_new' = acc.new
             /\ rb_last' = acc.last
             /\ rel' = acc.rel
             /\ log' = acc.log
    /\ UNCHANGED << conf, now, ticks, cur_sb, cur_val, cur_bit, cur_task, sb_last, sb_raw,
                    yl, bedroom_mode, wicket_gate_started, wicket_gate_delay,
                    wicket_gate_relays, cesspool_level, pending_tasks, ow_channel,
                    rfid_pending_tags, night, night_check, cancel >>

\* "checking for auto turn-off of necessary yeelights"; the locks are released
\* and the loop starts over
YSweep ==
    /\ pc = "ysweep"
    /\ pc' = "recv"
    /\ LET yacc == SweepYeelights([ yl |-> yl, log |-> log ], 1)
       IN  yl' = yacc.yl /\ log' = yacc.log
    /\ UNCHANGED << conf, now, ticks, cur_sb, cur_val, cur_bit, cur_task, sb_last, sb_raw,
                    rb_new, rb_last, rel, bedroom_mode, wicket_gate_started,
                    wicket_gate_delay, wicket_gate_relays, cesspool_level, pending_tasks,
                    ow_channel, rfid_pending_tags, night, night_check, cancel >>

\* process_rfid_tags up to the clear: both locks taken, every pending id
\* handled; the worker holds the write lock of the queue
RfidLock ==
    /\ pc = "rfid"
    /\ pc' = "rfid_locked"
    /\ \E sm \in { process_rfid_tags(SM, rfid_pending_tags, night, now) } :
           /\ wicket_gate_started' = sm.started
           /\ wicket_gate_delay' = sm.delay
           /\ wicket_gate_relays' = sm.relays
           /\ pending_tasks' = sm.pending
           /\ log' = sm.log
    /\ UNCHANGED << conf, now, ticks, cur_sb, cur_val, cur_bit, cur_task, sb_last, sb_raw,
                    rb_new, rb_last, rel, yl, bedroom_mode, cesspool_level, ow_channel,
                    rfid_pending_tags, night, night_check, cancel >>

\* `rfid_pending_tags.clear()`, the guards dropped at the end of the function,
\* then the test `if !pending_tasks.is_empty()`
RfidClear ==
    /\ pc = "rfid_locked"
    /\ rfid_pending_tags' = << >>
    /\ IF pending_tasks = << >>
       THEN pc' = "sweep" /\ cur_task' = 0 /\ pending_tasks' = << >>
       ELSE IF TaskWork(pending_tasks, 0, 1) = << >>
            THEN pc' = "sweep" /\ cur_task' = 0 /\ pending_tasks' = << >>
            ELSE pc' = "apply" /\ cur_task' = 1 /\ UNCHANGED pending_tasks
    /\ UNCHANGED << conf, now, ticks, cur_sb, cur_val, cur_bit, sb_last, sb_raw, rb_new,
                    rb_last, rel, yl, bedroom_mode, wicket_gate_started, wicket_gate_delay,
                    wicket_gate_relays, cesspool_level, ow_channel, night, night_check,
                    cancel, log >>

\* The environment acts between two passes.  A pass takes a few milliseconds,
\* far below the one-second resolution of the timing rules, so the clock is
\* advanced between passes; the channel and the tag queue are read once per
\* pass, so a send or a scan during a pass is the same send or scan before it.
Running == pc = "recv"

(***************************************************************************)
(* The environment                                                         *)
(***************************************************************************)
\* the clock advances
Tick ==
    /\ Running
    /\ ticks < MaxTicks
    /\ \E d \in conf.steps : now' = now + d
    /\ ticks' = ticks + 1
    /\ UNCHANGED << conf, pc, cur_sb, cur_val, cur_bit, cur_task, sb_last, sb_raw, rb_new,
                    rb_last, rel, yl, bedroom_mode, wicket_gate_started,
                    wicket_gate_delay, wicket_gate_relays, cesspool_level, pending_tasks,
                    ow_channel, rfid_pending_tags, night, night_check, cancel, log >>

\* another thread sends an OneWireTask into the channel
Submit ==
    /\ Running
    /\ Len(ow_channel) < MaxChannel
    /\ \E task \in conf.ext_tasks : ow_channel' = Append(ow_channel, task)
    /\ UNCHANGED << conf, now, ticks, pc, cur_sb, cur_val, cur_bit, cur_task, sb_last,
                    sb_raw, rb_new, rb_last, rel, yl, bedroom_mode, wicket_gate_started,
                    wicket_gate_delay, wicket_gate_relays, cesspool_level, pending_tasks,
                    rfid_pending_tags, night, night_check, cancel, log >>

\* the RFID scanner appends a tag id to the shared queue (under its write lock)
Scan ==
    /\ Running
    /\ Len(rfid_pending_tags) < MaxScans
    /\ \E id \in conf.scan_ids : rfid_pending_tags' = Append(rfid_pending_tags, id)
    /\ UNCHANGED << conf, now, ticks, pc, cur_sb, cur_val, cur_bit, cur_task, sb_last,
                    sb_raw, rb_new, rb_last, rel, yl, bedroom_mode, wicket_gate_started,
                    wicket_gate_delay, wicket_gate_relays, cesspool_level, pending_tasks,
                    ow_channel, night, night_check, cancel, log >>

\* a write lock that never excludes the scanner
WriteLockAlwaysFree == TRUE

\* `self.rfid_pending_tags.write()`: the write lock of the queue is free
\* unless the worker is inside process_rfid_tags
WriteLockFree == pc # "rfid_locked"

\* the RFID scanner appends a tag id to the shared queue at any point of the
\* worker's pass at which it gets the write lock
ScanAnyTime ==
    /\ pc \notin { "stopped", "panicked" }
    /\ WriteLockFree
    /\ Len(rfid_pending_tags) < MaxScans
    /\ \E id \in conf.scan_ids : rfid_pending_tags' = Append(rfid_pending_tags, id)
    /\ UNCHANGED << conf, now, ticks, pc, cur_sb, cur_val, cur_bit, cur_task, sb_last,
                    sb_raw, rb_new, rb_last, rel, yl, bedroom_mode, wicket_gate_started,
                    wicket_gate_delay, wicket_gate_relays, cesspool_level, pending_tasks,
                    ow_channel, night, night_check, cancel, log >>

\* main sets the cancellation flag
Cancel ==
    /\ ~cancel
    /\ cancel' = TRUE
    /\ UNCHANGED << conf, now, ticks, pc, cur_sb, cur_val, cur_bit, cur_task, sb_last,
                    sb_raw, rb_new, rb_last, rel, yl, bedroom_mode, wicket_gate_started,
                    wicket_gate_delay, wicket_gate_relays, cesspool_level, pending_tasks,
                    ow_channel, rfid_pending_tags, night, night_check, log >>

\* a step of one of the spawned yeelight_tcp_command threads, at any moment
YeelightTcp ==
    /\ \E id \in DOMAIN yl : \E k \in 1..Len(yl[id].cmds) : \E ok \in BOOLEAN :
           yl' = [ yl EXCEPT ![id] = yeelight_tcp_command(yl[id], k, ok) ]
    /\ UNCHANGED << conf, now, ticks, pc, cur_sb, cur_val, cur_bit, cur_task, sb_last,
                    sb_raw, rb_new, rb_last, rel, bedroom_mode, wicket_gate_started,
                    wicket_gate_delay, wicket_gate_relays, cesspool_level, pending_tasks,
                    ow_channel, rfid_pending_tags, night, night_check, cancel, log >>

\* one step of the worker
Pass == Recv \/ Read \/ Event \/ Flush \/ DayNight \/ Rfid \/ Apply \/ Sweep \/ YSweep

(***************************************************************************)
(* Construction                                                            *)
(***************************************************************************)
\* the relays of the registry by id
RelayOf(c, id) ==
    LET boards == c.relay_dev.relay_boards
        slot == CHOOSE s \in (1..Len(boards)) \X (0..7) : boards[s[1]].relay[s[2]].id = id
    IN  boards[slot[1]].relay[slot[2]]

RelayIdsOf(c) ==
    LET boards == c.relay_dev.relay_boards
    IN  { boards[b].relay[i].id : b \in 1..Len(boards), i \in 0..7 } \ { None }

\* the state of the worker when it enters its loop, for the configuration c
InitWith(c) ==
    /\ conf = c
    /\ now = 0
    /\ ticks = 0
    /\ pc = "recv"
    /\ cur_sb = 0
    /\ cur_val = None
    /\ cur_bit = 0
    /\ cur_task = 0
    /\ sb_last = [ b \in 1..Len(c.sensor_dev.sensor_boards) |-> None ]
    /\ sb_raw = [ b \in 1..Len(c.sensor_dev.sensor_boards) |-> None ]
    /\ rb_new = [ b \in 1..Len(c.relay_dev.relay_boards) |->
                    c.relay_dev.relay_boards[b].new_value ]
    /\ rb_last = [ b \in 1..Len(c.relay_dev.relay_boards) |->
                     c.relay_dev.relay_boards[b].last_value ]
    /\ rel = [ id \in RelayIdsOf(c) |->
                 [ override_mode |-> RelayOf(c, id).override_mode,
                   last_toggled |-> None, stop_after |-> None ] ]
    /\ yl = [ id \in { c.relay_dev.yeelight[k].id : k \in 1..Len(c.relay_dev.yeelight) } |->
                [ powered_on |-> FALSE, override_mode |-> FALSE, last_toggled |-> None,
                  stop_after |-> None, cmds |-> << >> ] ]
    /\ bedroom_mode = FALSE
    /\ wicket_gate_started = None
    /\ wicket_gate_delay = None
    /\ wicket_gate_relays = << >>
    /\ cesspool_level = << >>
    /\ pending_tasks = << >>
    /\ ow_channel = << >>
    /\ rfid_pending_tags = << >>
    /\ night = FALSE
    /\ night_check = IF c.geo THEN 0 ELSE None
    /\ cancel = FALSE
    /\ log = << >>

(***************************************************************************)
(* Configuration: one sensor board with a PIR sensor (bit 0) and a wall    *)
(* switch (bit 2), both wired to relay 1, which has the default hold times.*)
(* Other threads send TurnOnProlong for 500 ms and TurnOff for relay 1.    *)
(* The clock advances by 900 ms or by 61 s; reads and writes succeed.      *)
(***************************************************************************)
MainSensors ==
    add_sensor(add_sensor(NoSensorDevices, 1, 1, 101, 0, << 1 >>, << >>, << >>),
               2, 2, 101, 2, << 1 >>, << >>, << >>)

MainRelays ==
    add_relay(NoRelayDevices, 1, 201, 0, FALSE, None, None, FALSE, FALSE, << >>)

MainTasks ==
    { OneWireTask("TurnOnProlong", 1, NoGroup, 500),
      OneWireTask("TurnOff", 1, NoGroup, None) }

ConfMain ==
    [ sensor_dev |-> MainSensors, relay_dev |-> MainRelays, kinds |-> Kinds,
      rfid_tags |-> << >>, ethlcd |-> FALSE, geo |-> TRUE,
      raw_bytes |-> ValidSensorBytes, steps |-> { 900, 61000 },
      ext_tasks |-> MainTasks, scan_ids |-> { }, sun |-> BOOLEAN, io_fail |-> FALSE ]

Init == InitWith(ConfMain)

Next == Pass \/ Tick \/ Submit

Spec == Init /\ [][Next]_vars

\* one step of the worker when no task can be pending
PassNoTasks == Recv \/ Read \/ Event \/ Flush \/ DayNight \/ Rfid \/ Sweep \/ YSweep

(***************************************************************************)
(* Configuration: the sensors and the relay of the main one, no tasks, and *)
(* a sensor board file that may hold any of the four valid bytes, 0xFE,    *)
(* 0xFF, or fail to read.                                                  *)
(***************************************************************************)
ConfRaw ==
    [ ConfMain EXCEPT !.raw_bytes = ValidSensorBytes \cup { 254, 255, IOERR },
                      !.ext_tasks = { } ]

InitRaw == InitWith(ConfRaw)

NextRaw == PassNoTasks \/ Tick

SpecRaw == InitRaw /\ [][NextRaw]_vars

(***************************************************************************)
(* Configuration: the wicket gate.  Two reed sensors tagged wicket_gate,   *)
(* the second with inverted logic; an RFID tag that arms the gate for 5 s  *)
(* with the relays 1 and 2 as targets.                                     *)
(***************************************************************************)
GateSensors ==
    add_sensor(add_sensor(NoSensorDevices, 3, 3, 101, 0, << >>, << >>,
                          << << "wicket_gate" >> >>),
               4, 3, 101, 2, << >>, << >>, << << "wicket_gate", "invert_state" >> >>)

GateRelays ==
    add_relay(add_relay(NoRelayDevices, 1, 201, 0, FALSE, None, None, FALSE, FALSE, << >>),
              2, 201, 1, FALSE, None, None, FALSE, FALSE, << >>)

ConfGate ==
    [ sensor_dev |-> GateSensors, relay_dev |-> GateRelays, kinds |-> Kinds,
      rfid_tags |-> << RfidTag(7, << << "wicket_gate", "5" >> >>, << 1, 2 >>) >>,
      ethlcd |-> FALSE, geo |-> TRUE,
      raw_bytes |-> ValidSensorBytes, steps |-> { 900, 61000 },
      ext_tasks |-> { }, scan_ids |-> { 7 }, sun |-> BOOLEAN, io_fail |-> FALSE ]

InitGate == InitWith(ConfGate)

NextGate == Pass \/ Tick \/ Scan

SpecGate == InitGate /\ [][NextGate]_vars

(***************************************************************************)
(* Configuration: bedroom mode.  Two PIR sensors wired to relay 1, the     *)
(* first tagged bedroom_enable, the second bedroom_disable.                *)
(***************************************************************************)
BedroomSensors ==
    add_sensor(add_sensor(NoSensorDevices, 1, 1, 101, 0, << 1 >>, << >>,
                          << << "bedroom_enable" >> >>),
               2, 1, 101, 2, << 1 >>, << >>, << << "bedroom_disable" >> >>)

ConfBedroom ==
    [ ConfMain EXCEPT !.sensor_dev = BedroomSensors, !.ext_tasks = { } ]

InitBedroom == InitWith(ConfBedroom)

NextBedroom == PassNoTasks \/ Tick

SpecBedroom == InitBedroom /\ [][NextBedroom]_vars

(***************************************************************************)
(* Configuration: the cesspool.  MaxProbes level probes, tagged            *)
(* cesspool:1 .. cesspool:MaxProbes, two to a sensor board; the odd ones   *)
(* report all changes, the even ones on-events only.  No relays.           *)
(***************************************************************************)
\* the decimal text of a probe index
IndexText(n) == CHOOSE s \in { "0", "1", "2", "3", "4", "5" } : ParseUsize(s) = n

RECURSIVE CessSensors(_)
CessSensors(n) ==
    IF n = 0 THEN NoSensorDevices
    ELSE add_sensor(CessSensors(n - 1), 10 + n, 3, 100 + ((n + 1) \div 2),
                    IF n % 2 = 1 THEN 0 ELSE 2, << >>, << >>,
                    << IF n % 2 = 1 THEN << "cesspool", IndexText(n), "all_changes" >>
                       ELSE << "cesspool", IndexText(n) >> >>)

ConfCess ==
    [ sensor_dev |-> CessSensors(MaxProbes), relay_dev |-> NoRelayDevices,
      kinds |-> Kinds, rfid_tags |-> << >>, ethlcd |-> FALSE, geo |-> FALSE,
      raw_bytes |-> ValidSensorBytes \cup { IOERR }, steps |-> { },
      ext_tasks |-> { }, scan_ids |-> { }, sun |-> { FALSE }, io_fail |-> FALSE ]

InitCess == InitWith(ConfCess)

NextCess == PassNoTasks

SpecCess == InitCess /\ [][NextCess]_vars

(***************************************************************************)
(* Configuration: board writes.  Two wall switches on one sensor board,    *)
(* both wired to relay 1; relay 2 on the same relay board, turned on by a  *)
(* task of another thread; a board write may fail.  No geolocation.        *)
(***************************************************************************)
WritesSensors ==
    add_sensor(add_sensor(NoSensorDevices, 1, 2, 101, 0, << 1 >>, << >>, << >>),
               2, 2, 101, 2, << 1 >>, << >>, << >>)

ConfWrites ==
    [ sensor_dev |-> WritesSensors, relay_dev |-> GateRelays, kinds |-> Kinds,
      rfid_tags |-> << >>, ethlcd |-> FALSE, geo |-> FALSE,
      raw_bytes |-> ValidSensorBytes, steps |-> { 900 },
      ext_tasks |-> { OneWireTask("TurnOnProlong", 2, NoGroup, 500) },
      scan_ids |-> { }, sun |-> { FALSE }, io_fail |-> TRUE ]

InitWrites == InitWith(ConfWrites)

NextWrites == Pass \/ Tick \/ Submit

SpecWrites == InitWrites /\ [][NextWrites]_vars

(***************************************************************************)
(* Configuration: night tasks.  One motion sensor wired to relay 1; other  *)
(* threads ask to turn relay 1 on when it is night (for 0.5 s), to turn it *)
(* on (for 2 s) and to turn it off.                                        *)
(***************************************************************************)
NightSensors ==
    add_sensor(NoSensorDevices, 1, 1, 101, 0, << 1 >>, << >>, << >>)

NightTasks ==
    { OneWireTask("TurnOnProlongNight", 1, NoGroup, 500),
      OneWireTask("TurnOnProlong", 1, NoGroup, 2000),
      OneWireTask("TurnOff", 1, NoGroup, None) }

ConfNight ==
    [ sensor_dev |-> NightSensors, relay_dev |-> MainRelays, kinds |-> Kinds,
      rfid_tags |-> << >>, ethlcd |-> FALSE, geo |-> TRUE,
      raw_bytes |-> { 90, 75 }, steps |-> { 900, 61000 },
      ext_tasks |-> NightTasks, scan_ids |-> { }, sun |-> BOOLEAN, io_fail |-> FALSE ]

InitNight == InitWith(ConfNight)

NextNight == Pass \/ Tick \/ Submit

SpecNight == InitNight /\ [][NextNight]_vars

(***************************************************************************)
(* Configuration: faulty registry.  A motion sensor on the first board,    *)
(* wired to relay 1; on the second board a reed sensor tagged cesspool:0;  *)
(* on the third a sensor whose id_kind (9) has no entry in the kinds       *)
(* table.  A read may fail.                                                *)
(***************************************************************************)
FaultySensors ==
    add_sensor(add_sensor(add_sensor(NoSensorDevices,
                                     1, 1, 101, 0, << 1 >>, << >>, << >>),
                          5, 3, 102, 0, << >>, << >>, << << "cesspool", "0" >> >>),
               6, 9, 103, 0, << >>, << >>, << >>)

ConfFaulty ==
    [ sensor_dev |-> FaultySensors, relay_dev |-> MainRelays, kinds |-> Kinds,
      rfid_tags |-> << >>, ethlcd |-> FALSE, geo |-> FALSE,
      raw_bytes |-> { 90, 75, IOERR }, steps |-> { 900 },
      ext_tasks |-> { }, scan_ids |-> { }, sun |-> { FALSE }, io_fail |-> FALSE ]

InitFaulty == InitWith(ConfFaulty)

NextFaulty == PassNoTasks \/ Tick

SpecFaulty == InitFaulty /\ [][NextFaulty]_vars

(***************************************************************************)
(* Configuration: cancellation.  One wall switch wired to relay 1, and     *)
(* main setting the cancellation flag at any moment, also in the middle of *)
(* a pass.  The worker thread keeps running: a step of its loop that can   *)
(* be taken is eventually taken.                                           *)
(***************************************************************************)
CancelSensors ==
    add_sensor(NoSensorDevices, 2, 2, 101, 2, << 1 >>, << >>, << >>)

ConfCancel ==
    [ sensor_dev |-> CancelSensors, relay_dev |-> MainRelays, kinds |-> Kinds,
      rfid_tags |-> << >>, ethlcd |-> FALSE, geo |-> FALSE,
      raw_bytes |-> { 90, 30 }, steps |-> { 900 },
      ext_tasks |-> { }, scan_ids |-> { }, sun |-> { FALSE }, io_fail |-> FALSE ]

InitCancel == InitWith(ConfCancel)

NextCancel == PassNoTasks \/ Tick \/ Cancel

SpecCancel == InitCancel /\ [][NextCancel]_vars /\ WF_vars(PassNoTasks)

(***************************************************************************)
(* Configuration: night_exclude.  A motion sensor and a wall switch, both  *)
(* wired to relays 1 and 2, which are tagged night_exclude; relay 1 has    *)
(* pir_all_day, relay 2 has pir_exclude.                                   *)
(***************************************************************************)
ExcludeSensors ==
    add_sensor(add_sensor(NoSensorDevices, 1, 1, 101, 0, << 1, 2 >>, << >>, << >>),
               2, 2, 101, 2, << 1, 2 >>, << >>, << >>)

ExcludeRelays ==
    add_relay(add_relay(NoRelayDevices, 1, 201, 0, FALSE, None, None, FALSE, TRUE,
                        << << "night_exclude" >> >>),
              2, 201, 1, TRUE, None, None, FALSE, FALSE, << << "night_exclude" >> >>)

ConfExclude ==
    [ sensor_dev |-> ExcludeSensors, relay_dev |-> ExcludeRelays, kinds |-> Kinds,
      rfid_tags |-> << >>, ethlcd |-> FALSE, geo |-> TRUE,
      raw_bytes |-> ValidSensorBytes, steps |-> { 900, 61000 },
      ext_tasks |-> { }, scan_ids |-> { }, sun |-> BOOLEAN, io_fail |-> FALSE ]

InitExclude == InitWith(ConfExclude)

NextExclude == PassNoTasks \/ Tick

SpecExclude == InitExclude /\ [][NextExclude]_vars

(***************************************************************************)
(* Configuration: RFID tags.  Tag 7 carries wicket_gate:5, tag 8 carries   *)
(* no tags; both are associated with relays 1 and 2.  The scanner reports  *)
(* the ids 7, 8 and 9, the last one being in no table.  A reed sensor at   *)
(* the wicket gate.                                                        *)
(***************************************************************************)
RfidSensors ==
    add_sensor(NoSensorDevices, 3, 3, 101, 0, << >>, << >>, << << "wicket_gate" >> >>)

ConfRfid ==
    [ sensor_dev |-> RfidSensors, relay_dev |-> GateRelays, kinds |-> Kinds,
      rfid_tags |-> << RfidTag(7, << << "wicket_gate", "5" >> >>, << 1, 2 >>),
                       RfidTag(8, << >>, << 1, 2 >>) >>,
      ethlcd |-> FALSE, geo |-> TRUE,
      raw_bytes |-> { 90, 75 }, steps |-> { 61000 },
      ext_tasks |-> { }, scan_ids |-> { 7, 8, 9 }, sun |-> BOOLEAN, io_fail |-> FALSE ]

InitRfid == InitWith(ConfRfid)

NextRfid == Pass \/ Tick \/ Scan

SpecRfid == InitRfid /\ [][NextRfid]_vars

(***************************************************************************)
(* Configuration: first reads.  On the first board a motion sensor tagged  *)
(* bedroom_enable, wired to relay 1; on the second board, whose other slot *)
(* is empty, a reed sensor at the wicket gate.  Both are monitored.  A     *)
(* read may fail, so that a board may be read for the first time when the  *)
(* bedroom mode is set and the gate is armed by tag 7.  The sun has set    *)
(* when it is first looked for.                                            *)
(***************************************************************************)
FirstSensors ==
    add_sensor(add_sensor(NoSensorDevices, 1, 1, 101, 0, << 1 >>, << >>,
                          << << "bedroom_enable" >>, << "monitor_in_influxdb" >> >>),
               3, 3, 102, 2, << >>, << >>,
               << << "wicket_gate" >>, << "monitor_in_influxdb" >> >>)

ConfFirst ==
    [ sensor_dev |-> FirstSensors, relay_dev |-> MainRelays, kinds |-> Kinds,
      rfid_tags |-> << RfidTag(7, << << "wicket_gate", "5" >> >>, << 1 >>) >>,
      ethlcd |-> FALSE, geo |-> TRUE,
      raw_bytes |-> { 90, 15, IOERR }, steps |-> { 61000 },
      ext_tasks |-> { }, scan_ids |-> { 7 }, sun |-> { TRUE }, io_fail |-> FALSE ]

InitFirst == InitWith(ConfFirst)

NextFirst == Pass \/ Tick \/ Scan

SpecFirst == InitFirst /\ [][NextFirst]_vars

(***************************************************************************)
(* Configuration: a yeelight.  A wall switch wired to yeelight 1, whose    *)
(* switch_hold_secs is 2 s, and no relay.  The command threads run beside  *)
(* the worker; the worker thread keeps running, while a command thread may *)
(* hang for ever.                                                          *)
(***************************************************************************)
YeeSensors ==
    add_sensor(NoSensorDevices, 2, 2, 101, 2, << >>, << 1 >>, << >>)

YeeLights ==
    add_yeelight(NoRelayDevices, 1, FALSE, None, 2000, FALSE, << >>)

ConfYee ==
    [ sensor_dev |-> YeeSensors, relay_dev |-> YeeLights, kinds |-> Kinds,
      rfid_tags |-> << >>, ethlcd |-> FALSE, geo |-> FALSE,
      raw_bytes |-> { 90, 30 }, steps |-> { 1200 },
      ext_tasks |-> { }, scan_ids |-> { }, sun |-> { FALSE }, io_fail |-> FALSE ]

InitYee == InitWith(ConfYee)

NextYee == PassNoTasks \/ Tick \/ YeelightTcp

SpecYee == InitYee /\ [][NextYee]_vars /\ WF_vars(PassNoTasks)

(***************************************************************************)
(* Configuration: a wired wicket gate sensor.  A switch tagged wicket_gate *)
(* drives relay 1 and yeelight 1; relay 2 is an entry light; the RFID tag  *)
(* 7 arms the gate for 5 s with relay 1 as the target.                     *)
(***************************************************************************)
EntrySensors ==
    add_sensor(NoSensorDevices, 2, 2, 101, 0, << 1 >>, << 1 >>, << << "wicket_gate" >> >>)

EntryRelays ==
    add_yeelight(
        add_relay(add_relay(NoRelayDevices, 1, 201, 0, FALSE, None, None, FALSE, FALSE,
                            << >>),
                  2, 201, 1, FALSE, None, None, FALSE, FALSE, << << "entry_light" >> >>),
        1, FALSE, None, None, FALSE, << >>)

ConfEntry ==
    [ sensor_dev |-> EntrySensors, relay_dev |-> EntryRelays, kinds |-> Kinds,
      rfid_tags |-> << RfidTag(7, << << "wicket_gate", "5" >> >>, << 1 >>) >>,
      ethlcd |-> FALSE, geo |-> TRUE,
      raw_bytes |-> { 90, 75 }, steps |-> { 900, 61000 },
      ext_tasks |-> { }, scan_ids |-> { 7 }, sun |-> BOOLEAN, io_fail |-> FALSE ]

InitEntry == InitWith(ConfEntry)

NextEntry == Pass \/ Tick \/ Scan

SpecEntry == InitEntry /\ [][NextEntry]_vars

(***************************************************************************)
(* Configuration: day and night.  Relay 1 is tagged all_night, relay 2 of  *)
(* the same board is not; a switch drives both; the sun may be up or down  *)
(* at every check and a relay board write may fail.                        *)
(***************************************************************************)
AllNightSensors ==
    add_sensor(NoSensorDevices, 2, 2, 101, 0, << 1, 2 >>, << >>, << >>)

AllNightRelays ==
    add_relay(add_relay(NoRelayDevices, 1, 201, 0, FALSE, None, None, FALSE, FALSE,
                        << << "all_night" >> >>),
              2, 201, 1, FALSE, None, None, FALSE, FALSE, << >>)

ConfAllNight ==
    [ sensor_dev |-> AllNightSensors, relay_dev |-> AllNightRelays, kinds |-> Kinds,
      rfid_tags |-> << >>, ethlcd |-> FALSE, geo |-> TRUE,
      raw_bytes |-> { 90, 75 }, steps |-> { 61000 },
      ext_tasks |-> { }, scan_ids |-> { }, sun |-> BOOLEAN, io_fail |-> TRUE ]

InitAllNight == InitWith(ConfAllNight)

NextAllNight == PassNoTasks \/ Tick

SpecAllNight == InitAllNight /\ [][NextAllNight]_vars

(***************************************************************************)
(* Configuration: hold times.  A PIR sensor and a switch drive the relays  *)
(* 1 and 2.  Relay 1 holds 120 s after a PIR and 901 s after a switch and  *)
(* listens to PIRs all day; relay 2 holds 1000 s after a PIR, the default  *)
(* 3600 s after a switch, and listens to PIRs at night only.  There is no  *)
(* geolocation, so it is always day.  A task turns relay 2 on.             *)
(***************************************************************************)
HoldSensors ==
    add_sensor(add_sensor(NoSensorDevices, 1, 1, 101, 0, << 1, 2 >>, << >>, << >>),
               2, 2, 101, 2, << 1, 2 >>, << >>, << >>)

HoldRelays ==
    add_relay(add_relay(NoRelayDevices, 1, 201, 0, FALSE, None, 901000, FALSE, TRUE,
                        << >>),
              2, 201, 1, FALSE, 1000000, None, FALSE, FALSE, << >>)

ConfHold ==
    [ sensor_dev |-> HoldSensors, relay_dev |-> HoldRelays, kinds |-> Kinds,
      rfid_tags |-> << >>, ethlcd |-> FALSE, geo |-> FALSE,
      raw_bytes |-> { 90, 75, 30 }, steps |-> { 1200, 902000 },
      ext_tasks |-> { OneWireTask("TurnOnProlong", 2, NoGroup, None) },
      scan_ids |-> { }, sun |-> { FALSE }, io_fail |-> FALSE ]

InitHold == InitWith(ConfHold)

NextHold == Pass \/ Tick \/ Submit

SpecHold == InitHold /\ [][NextHold]_vars

(***************************************************************************)
(* Configuration: task durations.  The relays of the hold times, a switch  *)
(* on relay 1, and tasks that turn relay 1 (switch_hold_secs 901 s) or     *)
(* relay 2 (default switch_hold_secs) on without a duration, or relay 2    *)
(* with one.                                                               *)
(***************************************************************************)
DurationSensors ==
    add_sensor(NoSensorDevices, 2, 2, 101, 2, << 1 >>, << >>, << >>)

DurationTasks ==
    { OneWireTask("TurnOnProlong", 1, NoGroup, None),
      OneWireTask("TurnOnProlong", 2, NoGroup, None),
      OneWireTask("TurnOnProlong", 2, NoGroup, 500) }

ConfDuration ==
    [ sensor_dev |-> DurationSensors, relay_dev |-> HoldRelays, kinds |-> Kinds,
      rfid_tags |-> << >>, ethlcd |-> FALSE, geo |-> FALSE,
      raw_bytes |-> { 90, 30 }, steps |-> { 1200 },
      ext_tasks |-> DurationTasks, scan_ids |-> { }, sun |-> { FALSE },
      io_fail |-> FALSE ]

InitDuration == InitWith(ConfDuration)

NextDuration == Pass \/ Tick \/ Submit

SpecDuration == InitDuration /\ [][NextDuration]_vars

(***************************************************************************)
(* Configuration: a relay and a yeelight side by side.  Relay 1 and        *)
(* yeelight 1 have the same settings (pir_hold_secs 2 s, switch_hold_secs  *)
(* 3 s, pir_all_day, no tags) and are both wired to the PIR sensor and to  *)
(* the switch of one sensor board, which may change in the same read.      *)
(***************************************************************************)
MirrorSensors ==
    add_sensor(add_sensor(NoSensorDevices, 1, 1, 101, 0, << 1 >>, << 1 >>, << >>),
               2, 2, 101, 2, << 1 >>, << 1 >>, << >>)

MirrorRelays ==
    add_yeelight(add_relay(NoRelayDevices, 1, 201, 0, FALSE, 2000, 3000, FALSE, TRUE,
                           << >>),
                 1, FALSE, 2000, 3000, TRUE, << >>)

ConfMirror ==
    [ sensor_dev |-> MirrorSensors, relay_dev |-> MirrorRelays, kinds |-> Kinds,
      rfid_tags |-> << >>, ethlcd |-> FALSE, geo |-> FALSE,
      raw_bytes |-> ValidSensorBytes, steps |-> { 900, 2500 },
      ext_tasks |-> { }, scan_ids |-> { }, sun |-> { FALSE }, io_fail |-> FALSE ]

InitMirror == InitWith(ConfMirror)

NextMirror == PassNoTasks \/ Tick

SpecMirror == InitMirror /\ [][NextMirror]_vars

(***************************************************************************)
(* Configuration: the three sources of pending tasks.  Another thread      *)
(* sends TurnOnProlong for relay 1; the RFID tag 8 asks for relay 1; the   *)
(* RFID tag 7 arms the wicket gate, whose reed sensor then asks for relay  *)
(* 1.  It is always day.                                                   *)
(***************************************************************************)
ConfPending ==
    [ sensor_dev |-> RfidSensors, relay_dev |-> MainRelays, kinds |-> Kinds,
      rfid_tags |-> << RfidTag(7, << << "wicket_gate", "5" >> >>, << 1 >>),
                       RfidTag(8, << >>, << 1 >>) >>,
      ethlcd |-> FALSE, geo |-> FALSE,
      raw_bytes |-> { 90, 75 }, steps |-> { 900 },
      ext_tasks |-> { OneWireTask("TurnOnProlong", 1, NoGroup, 500) },
      scan_ids |-> { 7, 8 }, sun |-> { FALSE }, io_fail |-> FALSE ]

InitPending == InitWith(ConfPending)

NextPending == Pass \/ Tick \/ Submit \/ Scan

SpecPending == InitPending /\ [][NextPending]_vars

(***************************************************************************)
(* Observations used by the properties                                     *)
(***************************************************************************)
(***************************************************************************)
(* Configuration: the task channel.  A wall switch wired to relay 1, which *)
(* has the default hold times; other threads send TurnOnProlong (500 ms)   *)
(* and TurnOff tasks for relay 1, up to MaxBurst of them before the worker *)
(* looks at the channel again.  The clock advances by 1.2 s.               *)
(***************************************************************************)
ConfChannel ==
    [ sensor_dev |-> CancelSensors, relay_dev |-> MainRelays, kinds |-> Kinds,
      rfid_tags |-> << >>, ethlcd |-> FALSE, geo |-> FALSE,
      raw_bytes |-> { 90, 30 }, steps |-> { 1200 },
      ext_tasks |-> MainTasks, scan_ids |-> { }, sun |-> { FALSE }, io_fail |-> FALSE ]

\* the sequences of tasks a thread sends in a row
Bursts == UNION { [ 1..n -> MainTasks ] : n \in 1..MaxBurst }

\* other threads send a burst of tasks into the channel between two passes
SubmitBurst ==
    /\ Running
    /\ \E burst \in Bursts :
         /\ Len(ow_channel) + Len(burst) <= MaxBurst
         /\ ow_channel' = ow_channel \o burst
    /\ UNCHANGED << conf, now, ticks, pc, cur_sb, cur_val, cur_bit, cur_task, sb_last,
                    sb_raw, rb_new, rb_last, rel, yl, bedroom_mode, wicket_gate_started,
                    wicket_gate_delay, wicket_gate_relays, cesspool_level, pending_tasks,
                    rfid_pending_tags, night, night_check, cancel, log >>

InitChannel == InitWith(ConfChannel)

NextChannel == Pass \/ Tick \/ SubmitBurst

SpecChannel == InitChannel /\ [][NextChannel]_vars /\ WF_vars(Pass)

(***************************************************************************)
(* Configuration: one relay board shared by three relays.  A PIR sensor    *)
(* is wired to relay 1 (bit 0, active all day, held for 2 s), a wall       *)
(* switch to relay 2 (bit 3), and relay 3 (bit 5) is tagged all_night; the *)
(* other five bits of the board have no relay.  Another thread sends       *)
(* TurnOnProlong for relay 2.  The clock advances by 61 s.                 *)
(***************************************************************************)
SharedSensors ==
    add_sensor(add_sensor(NoSensorDevices, 1, 1, 101, 0, << 1 >>, << >>, << >>),
               2, 2, 101, 2, << 2 >>, << >>, << >>)

SharedRelays ==
    add_relay(
        add_relay(add_relay(NoRelayDevices, 1, 201, 0, FALSE, 2000, None, FALSE, TRUE,
                            << >>),
                  2, 201, 3, FALSE, None, None, FALSE, FALSE, << >>),
        3, 201, 5, FALSE, None, None, FALSE, FALSE, << << "all_night" >> >>)

ConfShared ==
    [ sensor_dev |-> SharedSensors, relay_dev |-> SharedRelays, kinds |-> Kinds,
      rfid_tags |-> << >>, ethlcd |-> FALSE, geo |-> TRUE,
      raw_bytes |-> { 90, 75, 30 }, steps |-> { 61000 },
      ext_tasks |-> { OneWireTask("TurnOnProlong", 2, NoGroup, 500) },
      scan_ids |-> { }, sun |-> BOOLEAN, io_fail |-> FALSE ]

InitShared == InitWith(ConfShared)

NextShared == Pass \/ Tick \/ Submit

SpecShared == InitShared /\ [][NextShared]_vars

(***************************************************************************)
(* Configuration: auto-off.  The PIR sensor and the wall switch of the     *)
(* main configuration, wired to relay 1, which is held for 2 s after a PIR *)
(* event and for 3 s after a switch toggle, and reacts to its PIR sensor   *)
(* all day.  Another thread sends TurnOnProlong for 500 ms.  The clock     *)
(* advances by 3.5 s; writes succeed.                                      *)
(***************************************************************************)
AutoOffRelays ==
    add_relay(NoRelayDevices, 1, 201, 0, FALSE, 2000, 3000, FALSE, TRUE, << >>)

ConfAutoOff ==
    [ sensor_dev |-> MainSensors, relay_dev |-> AutoOffRelays, kinds |-> Kinds,
      rfid_tags |-> << >>, ethlcd |-> FALSE, geo |-> FALSE,
      raw_bytes |-> { 90, 75, 30 }, steps |-> { 3500 },
      ext_tasks |-> { OneWireTask("TurnOnProlong", 1, NoGroup, 500) },
      scan_ids |-> { }, sun |-> { FALSE }, io_fail |-> FALSE ]

InitAutoOff == InitWith(ConfAutoOff)

NextAutoOff == Pass \/ Tick \/ Submit

SpecAutoOff == InitAutoOff /\ [][NextAutoOff]_vars /\ WF_vars(Pass)

(***************************************************************************)
(* Configuration: override and all night.  A motion detector and a switch  *)
(* drive relay 1 (pir_hold_secs 2 s, switch_hold_secs 3 s, pir_all_day),   *)
(* which is tagged all_night; tasks turn it on for half a second or off;   *)
(* the sun may be up or down at every check, a minute apart.               *)
(***************************************************************************)
OverrideSensors ==
    add_sensor(add_sensor(NoSensorDevices, 1, 1, 101, 0, << 1 >>, << >>, << >>),
               2, 2, 101, 2, << 1 >>, << >>, << >>)

OverrideRelays ==
    add_relay(NoRelayDevices, 1, 201, 0, FALSE, 2000, 3000, FALSE, TRUE,
              << << "all_night" >> >>)

OverrideTasks ==
    { OneWireTask("TurnOnProlong", 1, NoGroup, 500),
      OneWireTask("TurnOff", 1, NoGroup, None) }

ConfOverride ==
    [ sensor_dev |-> OverrideSensors, relay_dev |-> OverrideRelays, kinds |-> Kinds,
      rfid_tags |-> << >>, ethlcd |-> FALSE, geo |-> TRUE,
      raw_bytes |-> { 90, 75, 30 }, steps |-> { 61000 },
      ext_tasks |-> OverrideTasks, scan_ids |-> { }, sun |-> BOOLEAN,
      io_fail |-> FALSE ]

InitOverride == InitWith(ConfOverride)

NextOverride == Pass \/ Tick \/ Submit

SpecOverride == InitOverride /\ [][NextOverride]_vars

(***************************************************************************)
(* Configuration: motion at night.  A motion detector drives relay 1       *)
(* (pir_hold_secs 2 s), which is tagged all_night; nothing else acts on    *)
(* the relay; the sun may be up or down at every check, a minute apart.    *)
(***************************************************************************)
NightPirSensors == add_sensor(NoSensorDevices, 1, 1, 101, 0, << 1 >>, << >>, << >>)

NightPirRelays ==
    add_relay(NoRelayDevices, 1, 201, 0, FALSE, 2000, None, FALSE, FALSE,
              << << "all_night" >> >>)

ConfNightPir ==
    [ sensor_dev |-> NightPirSensors, relay_dev |-> NightPirRelays, kinds |-> Kinds,
      rfid_tags |-> << >>, ethlcd |-> FALSE, geo |-> TRUE,
      raw_bytes |-> { 90, 75 }, steps |-> { 1200, 61000 },
      ext_tasks |-> { }, scan_ids |-> { }, sun |-> BOOLEAN, io_fail |-> FALSE ]

InitNightPir == InitWith(ConfNightPir)

NextNightPir == PassNoTasks \/ Tick

SpecNightPir == InitNightPir /\ [][NextNightPir]_vars

(***************************************************************************)
(* Configuration: the scanner thread.  Tag 8 carries no tags and is        *)
(* associated with relay 1, which a motion detector drives too.  The       *)
(* worker's pass has process_rfid_tags in two steps, before and after the  *)
(* clear, and the scanner appends the ids 8 and 9, the latter in no table, *)
(* between any two steps of the worker at which the write lock of the      *)
(* queue is free.  The passes follow each other within the same second.    *)
(***************************************************************************)
ScannerSensors == add_sensor(NoSensorDevices, 1, 1, 101, 0, << 1 >>, << >>, << >>)

ConfScanner ==
    [ sensor_dev |-> ScannerSensors, relay_dev |-> GateRelays, kinds |-> Kinds,
      rfid_tags |-> << RfidTag(8, << >>, << 1 >>) >>,
      ethlcd |-> FALSE, geo |-> FALSE,
      raw_bytes |-> { 90, 75 }, steps |-> { 1200 },
      ext_tasks |-> { }, scan_ids |-> { 8, 9 }, sun |-> { FALSE }, io_fail |-> FALSE ]

InitScanner == InitWith(ConfScanner)

\* one step of the worker, process_rfid_tags split at the clear
PassLocked ==
    \/ Recv \/ Read \/ Event \/ Flush \/ DayNight
    \/ RfidLock \/ RfidClear
    \/ Apply \/ Sweep \/ YSweep

NextScanner == PassLocked \/ ScanAnyTime

SpecScanner == InitScanner /\ [][NextScanner]_vars /\ WF_vars(PassLocked)

\* the sensor of the loop iteration the worker is at, in a changed board
EvSensor == SensorAt(SensorBoards[cur_sb], bits[cur_bit])

\* `let on: bool = new_value & (1 << bit) != 0`
EvOn == BitSet(cur_val, bits[cur_bit])

\* the next step is a sensor event: the bit changed and a sensor is attached
EvChanged ==
    /\ pc = "event"
    /\ EvOn # BitSet(sb_last[cur_sb], bits[cur_bit])
    /\ EvSensor.id # None

\* the kind code of that sensor
EvKind == conf.kinds[EvSensor.id_kind]

\* the next step wires a sensor event of this kind to the relay id
Wired(kind_code, id) ==
    /\ EvChanged
    /\ EvKind = kind_code
    /\ SeqContains(EvSensor.associated_relays, id)

\* the board and the bit of the relay id
RelaySlot(id) ==
    CHOOSE s \in RelayBoardIds \X (0..7) : RelayBoards[s[1]].relay[s[2]].id = id

\* the relay id as configured
RelayCfg(id) == RelayBoards[RelaySlot(id)[1]].relay[RelaySlot(id)[2]]

\* the output bit of the relay id in the staged byte of its board, else in the
\* written one: TRUE is off, FALSE is on
OutBit(id) ==
    BitSet(BaseValue(rb_new[RelaySlot(id)[1]], rb_last[RelaySlot(id)[1]]), RelaySlot(id)[2])

\* elapsed(last_toggled) < MIN_TOGGLE_DELAY_SECS
Blocked(id) == rel[id].last_toggled # None /\ now - rel[id].last_toggled < 1000

\* the next step applies a task with this command to the relay id
TaskOn(command, id) ==
    /\ pc = "apply"
    /\ LET item == TaskWork(pending_tasks, 0, 1)[cur_task]
       IN  /\ item.i # 8
           /\ RelayBoards[item.b].relay[item.i].id = id
           /\ pending_tasks[item.k].command = command

\* the task the next step applies
TaskNow == pending_tasks[TaskWork(pending_tasks, 0, 1)[cur_task].k]

\* the lines the step adds to the log of the pass
NewLines == IF pc = "recv" THEN log' ELSE SubSeq(log', Len(log) + 1, Len(log'))

\* the step emits the line
Emits(k, id) == \E n \in 1..Len(NewLines) : NewLines[n].k = k /\ NewLines[n].id = id

\* the log of the pass holds the line
Logged(k, id) == \E n \in 1..Len(log) : log[n].k = k /\ log[n].id = id

RelayIds == RelayIdsOf(conf)

\* a toggle attempt on the relay id: a PIR on-event or a Switch event wired to
\* it, or a TurnOnProlong or TurnOff task applied to it
ToggleAttempt(id) ==
    \/ Wired("PIR_Trigger", id) /\ EvOn
    \/ Wired("Switch", id)
    \/ TaskOn("TurnOnProlong", id)
    \/ TaskOn("TurnOff", id)

\* a turn-on request (PIR on-event, TurnOnProlong task) for the relay id
TurnOnRequest(id) == (Wired("PIR_Trigger", id) /\ EvOn) \/ TaskOn("TurnOnProlong", id)

(***************************************************************************)
(* C1.  Flip-flop protection.  As claimed: every toggle attempt (PIR       *)
(* on-event, Switch event, TurnOnProlong task, TurnOff task) that arrives  *)
(* while elapsed(last_toggled) < 1 s leaves the relay's output bit and its *)
(* stop_after unchanged.                                                   *)
(***************************************************************************)
C1_Original ==
    [][ \A id \in RelayIds :
          (ToggleAttempt(id) /\ Blocked(id))
              => /\ OutBit(id)' = OutBit(id)
                 /\ rel'[id].stop_after = rel[id].stop_after ]_vars

(***************************************************************************)
(* C1 as amended: such an attempt leaves the output bit and override_mode  *)
(* unchanged, and leaves stop_after unchanged unless it is a turn-on       *)
(* request (PIR on-event, TurnOnProlong task) for a relay that is already  *)
(* on or in override mode: that request prolongs the relay, blocked or not.*)
(***************************************************************************)
C1_FlipFlop ==
    [][ \A id \in RelayIds :
          (ToggleAttempt(id) /\ Blocked(id))
              => /\ OutBit(id)' = OutBit(id)
                 /\ rel'[id].override_mode = rel[id].override_mode
                 /\ rel'[id].last_toggled = rel[id].last_toggled
                 /\ (~(TurnOnRequest(id) /\ (~OutBit(id) \/ rel[id].override_mode))
                       => rel'[id].stop_after = rel[id].stop_after) ]_vars

\* a blocked Switch toggle was ignored with its warning
C1_Witness ==
    /\ Logged("warn_flipflop_switch", 1)
    /\ Blocked(1)

\* sensor_hook let the event of the step through to the wiring
HookPassed ==
    \E n \in 1..Len(NewLines) :
        NewLines[n] = Line("stop_processing", EvSensor.id, 0)

\* a PIR on-event concerns the relay id: not excluded, night or pir_all_day,
\* not vetoed by relay_hook (night_exclude at night)
PirAccepted(id) ==
    /\ ~RelayCfg(id).pir_exclude
    /\ night \/ RelayCfg(id).pir_all_day
    /\ ~(night /\ HasTag(RelayCfg(id).tags, "night_exclude"))

(***************************************************************************)
(* C2.  Turning on.  As claimed: a PIR on-transition wired to a relay      *)
(* whose output is off, with pir_exclude = false, not flip-flop blocked,   *)
(* not vetoed, at night or pir_all_day, stages the bit to 0 and sets       *)
(* stop_after = pir_hold_secs; a TurnOnProlong task with an explicit       *)
(* duration d on a relay whose output is off sets stop_after = d.          *)
(***************************************************************************)
C2_Original ==
    [][ \A id \in RelayIds :
          /\ (Wired("PIR_Trigger", id) /\ EvOn /\ HookPassed /\ PirAccepted(id)
                /\ OutBit(id) /\ ~Blocked(id))
               => (~OutBit(id)' /\ rel'[id].stop_after = RelayCfg(id).pir_hold_secs)
          /\ (TaskOn("TurnOnProlong", id) /\ TaskNow.duration # None /\ OutBit(id))
               => rel'[id].stop_after = TaskNow.duration ]_vars

(***************************************************************************)
(* C2 as amended: both hold when, besides its output being off, the relay  *)
(* has override_mode = false, and, for the task, is not flip-flop blocked. *)
(* The task then stages the bit to 0 as well.                              *)
(***************************************************************************)
C2_TurnOn ==
    [][ \A id \in RelayIds :
          /\ (Wired("PIR_Trigger", id) /\ EvOn /\ HookPassed /\ PirAccepted(id)
                /\ OutBit(id) /\ ~rel[id].override_mode /\ ~Blocked(id))
               => (~OutBit(id)' /\ rel'[id].stop_after = RelayCfg(id).pir_hold_secs)
          /\ (TaskOn("TurnOnProlong", id) /\ TaskNow.duration # None
                /\ OutBit(id) /\ ~rel[id].override_mode /\ ~Blocked(id))
               => (~OutBit(id)' /\ rel'[id].stop_after = TaskNow.duration) ]_vars

\* a PIR on-event has just turned relay 1 on for its pir_hold_secs
C2_Witness ==
    /\ pc \in { "event", "flush" }
    /\ log # << >> /\ log[Len(log)] = Line("pir_turning_on", 1, 0)
    /\ ~OutBit(1)
    /\ rel[1].stop_after = RelayCfg(1).pir_hold_secs

(***************************************************************************)
(* C3.  A Switch sensor transition, in either direction, wired to a relay  *)
(* that is not flip-flop blocked inverts the relay's staged output bit     *)
(* whatever it was, and sets override_mode = true and stop_after =         *)
(* switch_hold_secs.                                                       *)
(***************************************************************************)
C3_SwitchToggle ==
    [][ \A id \in RelayIds :
          (Wired("Switch", id) /\ HookPassed /\ ~Blocked(id))
              => /\ OutBit(id)' = ~OutBit(id)
                 /\ rel'[id].override_mode
                 /\ rel'[id].stop_after = RelayCfg(id).switch_hold_secs ]_vars

\* a Switch event has just toggled relay 1 from on to off
C3_Witness ==
    /\ pc \in { "event", "flush" }
    /\ log # << >> /\ log[Len(log)] = Line("switch_toggle", 1, 0)
    /\ OutBit(1)
    /\ rel[1].override_mode
    /\ rel[1].stop_after = RelayCfg(1).switch_hold_secs

\* elapsed(last_toggled) > max(MIN_TOGGLE_DELAY_SECS, stop_after), with both set
SweepCondition(id) ==
    /\ rel[id].last_toggled # None
    /\ rel[id].stop_after # None
    /\ now - rel[id].last_toggled > 1000
    /\ now - rel[id].last_toggled > rel[id].stop_after

(***************************************************************************)
(* C4.  In the auto-off sweep a relay is cleared (its output off,          *)
(* override_mode and stop_after reset) if and only if elapsed(last_toggled)*)
(* > max(MIN_TOGGLE_DELAY_SECS, stop_after): a relay for which this does   *)
(* not hold, in particular one toggled within the last second or one       *)
(* without stop_after, is left as it is.                                   *)
(***************************************************************************)
C4_Sweep ==
    [][ pc = "sweep" =>
          \A id \in RelayIds :
              IF SweepCondition(id)
              THEN /\ OutBit(id)'
                   /\ ~rel'[id].override_mode
                   /\ rel'[id].stop_after = None
              ELSE /\ OutBit(id)' = OutBit(id)
                   /\ rel'[id] = rel[id] ]_vars

\* the sweep has just turned relay 1 off
C4_Witness ==
    /\ pc = "ysweep"
    /\ Logged("auto_turn_off", 1)
    /\ OutBit(1)
    /\ rel[1].stop_after = None

\* a PIR on-event for relay id, 900 ms after the relay was turned on for its
\* pir_hold_secs, the write of that turn-on done
SecondPirOn(id) ==
    /\ Wired("PIR_Trigger", id) /\ EvOn /\ HookPassed /\ PirAccepted(id)
    /\ ~OutBit(id) /\ ~rel[id].override_mode
    /\ rel[id].stop_after = RelayCfg(id).pir_hold_secs
    /\ rel[id].last_toggled # None /\ now - rel[id].last_toggled = 900
    /\ rb_new[RelaySlot(id)[1]] = None

\* a relay board with nothing staged is not written by the flush of a changed
\* sensor board
FlushWritesStagedOnly ==
    pc = "flush" =>
        \A b \in RelayBoardIds :
            rb_new[b] = None =>
                /\ rb_last'[b] = rb_last[b]
                /\ \A n \in 1..Len(NewLines) :
                       ~(NewLines[n].k = "write" /\ NewLines[n].id = b)

(***************************************************************************)
(* C10.  Two PIR on-events 900 ms apart.  As claimed: the second event     *)
(* produces a flip-flop warning and causes no second write of the board.   *)
(***************************************************************************)
C10_Original ==
    [][ /\ \A id \in RelayIds :
              SecondPirOn(id) =>
                  /\ Emits("warn_flipflop_pir", id)
                  /\ rb_new' = rb_new
        /\ FlushWritesStagedOnly ]_vars

(***************************************************************************)
(* C10 as amended: the second event finds the relay on, so it prolongs it  *)
(* (stop_after = 900 ms + pir_hold_secs) without a warning; it stages      *)
(* nothing, so the pass does not write the relay board again.              *)
(***************************************************************************)
C10_SecondPirOn ==
    [][ /\ \A id \in RelayIds :
              SecondPirOn(id) =>
                  /\ ~Emits("warn_flipflop_pir", id)
                  /\ Emits("pir_prolonging", id)
                  /\ rel'[id].stop_after = 900 + RelayCfg(id).pir_hold_secs
                  /\ rel'[id].last_toggled = rel[id].last_toggled
                  /\ OutBit(id)' = OutBit(id)
                  /\ rb_new' = rb_new
        /\ FlushWritesStagedOnly ]_vars

\* the second PIR on-event has just prolonged relay 1
C10_Witness ==
    /\ pc \in { "event", "flush" }
    /\ log # << >> /\ log[Len(log)] = Line("pir_prolonging", 1, 0)
    /\ rel[1].last_toggled # None /\ now - rel[1].last_toggled = 900
    /\ rel[1].stop_after = 900 + RelayCfg(1).pir_hold_secs
    /\ rb_new[1] = None

\* the bedroom block of sensor_hook returns for the event of the step
BedroomReturns ==
    EvKind = "PIR_Trigger" /\ EvOn /\ night /\ HasTag(EvSensor.tags, "bedroom_enable")

\* the first tag of the sensor that starts with wicket_gate
GateTag ==
    EvSensor.tags[CHOOSE i \in 1..Len(EvSensor.tags) :
                     /\ StartsWith(EvSensor.tags[i], "wicket_gate")
                     /\ \A j \in 1..(i - 1) : ~StartsWith(EvSensor.tags[j], "wicket_gate")]

\* the step is a qualifying event of a wicket_gate sensor: non-initial, on
\* after the inversion of an invert_state tag
GateEvent ==
    /\ EvChanged
    /\ \E i \in 1..Len(EvSensor.tags) : StartsWith(EvSensor.tags[i], "wicket_gate")
    /\ EvOn # Contains(GateTag, "invert_state")
    /\ ~BedroomReturns

\* the gate is armed
Armed == wicket_gate_started # None /\ wicket_gate_delay # None

\* the tasks the step appends to the pending list
AddedTasks == SubSeq(pending_tasks', Len(pending_tasks) + 1, Len(pending_tasks'))

\* how many of the added tasks are TurnOnProlong for the relay id
AddedProlongs(id) ==
    Cardinality({ k \in 1..Len(AddedTasks) :
                    AddedTasks[k].command = "TurnOnProlong" /\ AddedTasks[k].id_relay = id })

(***************************************************************************)
(* C5.  Wicket gate.  With the gate armed by RFID with delay D and target  *)
(* relays R, a qualifying event of a wicket_gate sensor at elapsed time    *)
(* t < D appends one TurnOnProlong task for every entry of R (and none for *)
(* any other relay) to the pending list; at t >= D it appends none; either *)
(* way the gate is disarmed, and a qualifying event that finds the gate    *)
(* disarmed appends nothing and leaves it disarmed.                        *)
(***************************************************************************)
C5_WicketGate ==
    [][ GateEvent =>
          /\ Len(pending_tasks') >= Len(pending_tasks)
          /\ SubSeq(pending_tasks', 1, Len(pending_tasks)) = pending_tasks
          /\ IF Armed /\ now - wicket_gate_started < wicket_gate_delay
             THEN \A id \in RelayIds \cup { wicket_gate_relays[k] :
                                             k \in 1..Len(wicket_gate_relays) } :
                      AddedProlongs(id) =
                          Cardinality({ k \in 1..Len(wicket_gate_relays) :
                                          wicket_gate_relays[k] = id })
             ELSE \A k \in 1..Len(AddedTasks) : AddedTasks[k].command # "TurnOnProlong"
          /\ wicket_gate_started' = None
          /\ ~Armed => AddedTasks = << >> ]_vars

\* a qualifying event within the delay has just disarmed the gate and asked for
\* the relays 1 and 2, once each
C5_Witness ==
    /\ pc \in { "event", "flush" }
    /\ wicket_gate_started = None
    /\ wicket_gate_delay # None
    /\ Logged("stop_processing", 3) \/ Logged("stop_processing", 4)
    /\ Len(pending_tasks) >= 2
    /\ Cardinality({ k \in 1..Len(pending_tasks) :
                       pending_tasks[k] = OneWireTask("TurnOnProlong", 1, NoGroup, None) }) = 1
    /\ Cardinality({ k \in 1..Len(pending_tasks) :
                       pending_tasks[k] = OneWireTask("TurnOnProlong", 2, NoGroup, None) }) = 1

\* the step is a non-initial PIR on-event at night of a sensor with this tag
\* and without that one
BedroomEvent(this, that) ==
    /\ EvChanged
    /\ EvKind = "PIR_Trigger" /\ EvOn /\ night
    /\ HasTag(EvSensor.tags, this)
    /\ ~HasTag(EvSensor.tags, that)

(***************************************************************************)
(* C6.  Bedroom mode.  A non-initial PIR on-event at night from a sensor   *)
(* tagged bedroom_enable sets bedroom_mode and passes sensor_hook when the *)
(* mode is off; when the mode is on, sensor_hook returns false for it and  *)
(* no relay or yeelight is wired, the mode staying on.  The mode goes off  *)
(* only by such an event from a sensor tagged bedroom_disable, which does  *)
(* reset it.                                                               *)
(***************************************************************************)
C6_BedroomMode ==
    [][ /\ (BedroomEvent("bedroom_enable", "bedroom_disable") /\ ~bedroom_mode)
             => (bedroom_mode' /\ HookPassed)
        /\ (BedroomEvent("bedroom_enable", "bedroom_disable") /\ bedroom_mode)
             => /\ bedroom_mode'
                /\ \E n \in 1..Len(NewLines) :
                       NewLines[n] = Line("stop_processing", EvSensor.id, 1)
                /\ rel' = rel /\ rb_new' = rb_new /\ yl' = yl
        /\ (bedroom_mode /\ ~bedroom_mode')
             => (EvChanged /\ EvKind = "PIR_Trigger" /\ EvOn /\ night
                   /\ HasTag(EvSensor.tags, "bedroom_disable"))
        /\ BedroomEvent("bedroom_disable", "bedroom_enable") => ~bedroom_mode' ]_vars

\* with the mode on, an event of the bedroom_enable sensor has just been
\* suppressed
C6_Witness ==
    /\ pc \in { "event", "flush" }
    /\ bedroom_mode
    /\ log # << >> /\ log[Len(log)] = Line("stop_processing", 1, 1)

\* the step emits a cesspool snapshot line
EmitsSnapshot ==
    \E n \in 1..Len(NewLines) :
        NewLines[n].k \in { "SetCesspoolLevel", "UpdateCesspoolLevel" }

(***************************************************************************)
(* C7.  A cesspool snapshot (SetCesspoolLevel to the LCD, UpdateCesspool-  *)
(* Level to the database) is emitted only by a step whose updates leave    *)
(* every index of the level vector with a value; while an index is None,   *)
(* none is emitted.                                                        *)
(***************************************************************************)
C7_Snapshot ==
    [][ EmitsSnapshot =>
          /\ Len(cesspool_level') = conf.sensor_dev.max_cesspool_level
          /\ \A i \in 1..Len(cesspool_level') : cesspool_level'[i] # None ]_vars

\* a snapshot is in the log of the pass, every probe known, one of them off
C7_Witness ==
    /\ Logged("SetCesspoolLevel", 0) /\ Logged("UpdateCesspoolLevel", 0)
    /\ \A i \in 1..Len(cesspool_level) : cesspool_level[i] # None
    /\ \E i \in 1..Len(cesspool_level) : cesspool_level[i] = 0

\* the number of probes that report on
TrueCount(level) == Cardinality({ i \in 1..Len(level) : level[i] = 1 })

ScenarioRelays ==
    LET sensor == SensorAt(SensorBoards[cur_sb], 0)
    IN  IF sensor.id = None \/ conf.kinds[sensor.id_kind] # "PIR_Trigger" THEN { }
        ELSE { id \in RelayIds :
                 /\ SeqContains(sensor.associated_relays, id)
                 /\ OutBit(id) /\ ~rel[id].override_mode /\ ~Blocked(id)
                 /\ PirAccepted(id)
                 /\ RelayCfg(id).pir_hold_secs = 120000 }

\* the scenario for a board that showed the byte last and now shows the byte
\* new, at night, step by step: the read is taken for a change; the event of
\* bit 0 turns the relay on for 120 s; the flush writes the staged byte
Scenario(last, new) ==
    /\ (pc = "read" /\ sb_raw[cur_sb] = last /\ sb_raw'[cur_sb] = new /\ night
          /\ ScenarioRelays # { })
         => (pc' = "event" /\ cur_val' = new /\ cur_bit' = 1)
    /\ (pc = "event" /\ cur_bit = 1 /\ sb_raw[cur_sb] = new /\ cur_val = new
          /\ sb_last[cur_sb] = last /\ night)
         => \A id \in ScenarioRelays :
                /\ ~OutBit(id)'
                /\ rel'[id].stop_after = 120000
    /\ (pc = "flush" /\ sb_raw[cur_sb] = new /\ cur_val = new /\ sb_last[cur_sb] = last)
         => \A b \in RelayBoardIds :
                (rb_new[b] # None /\ rb_new[b] # rb_last[b])
                    => /\ rb_last'[b] = rb_new[b]
                       /\ \E n \in 1..Len(NewLines) : NewLines[n] = Line("write", b, rb_new[b])

(***************************************************************************)
(* C9.  Scenario.  As claimed: a sensor board that showed 0xFF and now     *)
(* reads 0xFE, with a PIR sensor on bit 0, at night, and an associated off *)
(* relay that is not excluded: the pass writes the relay board with the    *)
(* relay's bit cleared and sets the relay's stop_after to 120 s.           *)
(***************************************************************************)
C9_Original == [][ Scenario(255, 254) ]_vars

(***************************************************************************)
(* C9 as amended: the scenario holds of a board whose last value is 0x5a   *)
(* and that reads 0x4b (bit 0 set: the on-event), the relay being off, not *)
(* in override mode and not flip-flop blocked, the write succeeding.       *)
(***************************************************************************)
C9_Scenario == [][ Scenario(90, 75) ]_vars

\* the pass has turned relay 1 on for 120 s and written its board with bit 0
\* cleared, on the read of 0x4b after 0x5a
C9_Witness ==
    /\ pc = "daynight"
    /\ night
    /\ sb_raw[1] = 75 /\ sb_last[1] = 75
    /\ Logged("pir_turning_on", 1)
    /\ \E n \in 1..Len(log) : log[n] = Line("write", 1, 254)
    /\ rb_last[1] = 254 /\ rb_new[1] = None
    /\ rel[1].stop_after = 120000

\* the number of lines of kind k about id in a sequence of lines
CountLines(lines, k, id) ==
    Cardinality({ n \in 1..Len(lines) : lines[n].k = k /\ lines[n].id = id })

\* the lines a step of the worker adds to the log (none by the other threads)
StepLines == IF log' = log THEN << >> ELSE NewLines

\* a step writes a board only from its stage, and a successful write makes the
\* byte the board's last_value and clears the stage; without a write the
\* last_value stays
WriteEffect(b) ==
    /\ \A n \in 1..Len(StepLines) :
           (StepLines[n].k = "write" /\ StepLines[n].id = b)
               => (rb_last'[b] = StepLines[n].v /\ rb_new'[b] = None)
    /\ CountLines(StepLines, "write", b) = 0 => rb_last'[b] = rb_last[b]

(***************************************************************************)
(* C11.  Board writes.  As claimed: in every pass a relay board is written *)
(* at most once, only with a byte that differs from its last written       *)
(* value, and after a successful write last_value is the written byte and  *)
(* the stage is None.                                                      *)
(***************************************************************************)
C11_Original ==
    [][ \A b \in RelayBoardIds :
          /\ CountLines(log', "write", b) <= 1
          /\ \A n \in 1..Len(StepLines) :
                 (StepLines[n].k = "write" /\ StepLines[n].id = b)
                     => StepLines[n].v # BaseValue(None, rb_last[b])
          /\ WriteEffect(b) ]_vars

(***************************************************************************)
(* C11 as amended: a relay board is written at most once by each of the    *)
(* save points of a pass (the flush after a changed sensor board, the      *)
(* day/night change, the end of the pending-task block, the auto-off       *)
(* sweep), so possibly several times in a pass.  The flush after a sensor  *)
(* change attempts the write if and only if the staged byte differs from   *)
(* the last written one; the other save points attempt it whenever a byte  *)
(* is staged, so afterwards the stage is None or the write has failed.  A  *)
(* successful write makes the byte last_value and clears the stage; a      *)
(* failed one keeps both.                                                  *)
(***************************************************************************)
C11_Writes ==
    [][ \A b \in RelayBoardIds :
          /\ CountLines(StepLines, "write", b) + CountLines(StepLines, "write_error", b) <= 1
          /\ WriteEffect(b)
          /\ CountLines(StepLines, "write_error", b) = 1 => rb_new'[b] # None
          /\ pc = "flush" =>
               ((CountLines(StepLines, "write", b) + CountLines(StepLines, "write_error", b) = 1)
                   <=> (rb_new[b] # None /\ rb_new[b] # BaseValue(None, rb_last[b])))
          /\ (pc = "sweep" \/ (pc = "apply" /\ pc' = "sweep"))
               => (rb_new'[b] = None \/ CountLines(StepLines, "write_error", b) = 1) ]_vars

\* relay board 1 has been written twice in one pass
C11_Witness ==
    /\ CountLines(log, "write", 1) = 2
    /\ rb_new[1] = None

\* the step is the read of the current sensor board and the read fails or
\* gives a byte outside the accepted ones
RejectedRead == pc = "read" /\ sb_raw'[cur_sb] \notin ValidSensorBytes

(***************************************************************************)
(* C12.  A failed read, or a byte outside 0x5a, 0x4b, 0x1e, 0x0f, makes    *)
(* read_state return None: the pass leaves the board's last_value as it    *)
(* was, goes on to the next board without any sensor_hook call (no event,  *)
(* no change of the state machine, no log line) and changes no relay or    *)
(* yeelight state.                                                         *)
(***************************************************************************)
C12_RejectedRead ==
    [][ RejectedRead =>
          /\ read_state(sb_raw'[cur_sb]) = None
          /\ sb_last' = sb_last
          /\ pc' \in { "read", "daynight" }
          /\ pc' = "read" => cur_sb' = cur_sb + 1
          /\ StepLines = << >>
          /\ UNCHANGED << rel, yl, rb_new, rb_last, bedroom_mode, wicket_gate_started,
                          wicket_gate_delay, wicket_gate_relays, cesspool_level,
                          pending_tasks >> ]_vars

\* a board that showed 0x4b has read 0xFE, and the pass has gone on
C12_Witness ==
    /\ pc = "daynight"
    /\ sb_raw[1] = 254
    /\ sb_last[1] = 75

\* the step is the top of a pass that takes a task from the channel
Receives == pc = "recv" /\ pc' # "recv" /\ ~cancel /\ ow_channel # << >>

\* the pass has logged an outcome of turn-on-or-prolong for the relay
ProlongOutcome(lines, id) ==
    \E n \in 1..Len(lines) :
        /\ lines[n].id = id
        /\ lines[n].k \in { "external_turning_on", "external_prolonging",
                            "warn_flipflop_external_on" }

(***************************************************************************)
(* C13.  External tasks at the top of a pass.  A TurnOnProlongNight taken  *)
(* from the channel while night is false is dropped: nothing is pending    *)
(* and no relay is affected.  Taken while night is true it is pending as   *)
(* TurnOnProlong and applied to its relay before that pass ends, which     *)
(* clears the pending list.  TurnOnProlong and TurnOff are always placed   *)
(* in the pending list.                                                    *)
(***************************************************************************)
C13_NightTask ==
    [][ /\ pc = "recv" => pending_tasks = << >>
        /\ Receives =>
             LET task == Head(ow_channel)
             IN  /\ ow_channel' = Tail(ow_channel)
                 /\ UNCHANGED << rel, rb_new, rb_last >>
                 /\ (task.command = "TurnOnProlongNight" /\ ~night)
                        => pending_tasks' = << >>
                 /\ (task.command = "TurnOnProlongNight" /\ night)
                        => pending_tasks' = << [ task EXCEPT !.command = "TurnOnProlong" ] >>
                 /\ task.command \in { "TurnOnProlong", "TurnOff" }
                        => pending_tasks' = << task >>
        /\ (pc = "rfid" /\ pending_tasks = << >>) => pc' = "sweep"
        /\ (pc = "apply" /\ pc' = "sweep") =>
             /\ pending_tasks' = << >>
             /\ \A n \in 1..Len(pending_tasks) :
                    pending_tasks[n].command = "TurnOnProlong"
                        => ProlongOutcome(log', pending_tasks[n].id_relay)
             /\ \A n \in 1..Len(log') :
                    log'[n].k = "external_turning_on"
                        => ~BitSet(BaseValue(rb_new'[1], rb_last'[1]), 0) ]_vars

\* a TurnOnProlongNight for 0.5 s was taken at night and has turned relay 1 on
C13_Witness ==
    /\ pc = "sweep"
    /\ night
    /\ Logged("external_turning_on", 1)
    /\ rel[1].stop_after = 500
    /\ ~OutBit(1)

(***************************************************************************)
(* C14.  A TurnOff task applied to a relay that is on and not flip-flop    *)
(* blocked sets the relay's output bit to 1, clears override_mode and      *)
(* stop_after and emits exactly one IncrementRelayCounter for the relay;   *)
(* applied to a relay that is already off it changes nothing and emits     *)
(* nothing.                                                                *)
(***************************************************************************)
C14_TurnOff ==
    [][ \A id \in RelayIds :
          TaskOn("TurnOff", id) =>
              /\ (~OutBit(id) /\ ~Blocked(id)) =>
                     /\ OutBit(id)'
                     /\ ~rel'[id].override_mode
                     /\ rel'[id].stop_after = None
                     /\ CountLines(StepLines, "IncrementRelayCounter", id) = 1
              /\ OutBit(id) =>
                     /\ OutBit(id)'
                     /\ UNCHANGED << rel, rb_new, rb_last, log >> ]_vars

\* a TurnOff task has just turned relay 1 off
C14_Witness ==
    /\ pc = "apply"
    /\ Logged("external_turn_off", 1)
    /\ CountLines(log, "IncrementRelayCounter", 1) = 1
    /\ OutBit(1)
    /\ ~rel[1].override_mode
    /\ rel[1].stop_after = None
    /\ rel[1].last_toggled = now

(***************************************************************************)
(* C15.  As claimed: no data error stops the control loop; a sensor whose  *)
(* id_kind has no entry in the kinds table, or a sensor tagged cesspool:0, *)
(* only has its event dropped, and the loop goes on to later passes.  The  *)
(* worker is never ended by a panic.                                       *)
(***************************************************************************)
C15_Original == pc # "panicked"

\* the steps of a pass after its first one, in order
PassOrder == << "read", "event", "flush", "daynight", "rfid", "apply", "sweep", "ysweep",
               "recv" >>

\* the position of a step in the pass
PassIndex(p) == CHOOSE n \in 1..Len(PassOrder) : PassOrder[n] = p

(***************************************************************************)
(* C16.  Cancellation.  The flag is looked at only at the top of a pass:   *)
(* a pass in progress when the flag is set is not aborted (its steps go on *)
(* to the end of the pass, where the worker is back at the top of the      *)
(* loop), no pass starts while the flag is set (from the top of the loop   *)
(* the worker only stops, changing nothing), and the worker, once the flag *)
(* is set, eventually stops and stays stopped.                             *)
(***************************************************************************)
C16_Cancel ==
    /\ [][ /\ (cancel /\ pc = "recv" /\ pc' # "recv") =>
                 /\ pc' = "stopped"
                 /\ UNCHANGED << sb_last, sb_raw, rb_new, rb_last, rel, yl, pending_tasks,
                                 ow_channel, rfid_pending_tags, night, log >>
           /\ (cancel /\ pc \notin { "recv", "stopped" }) =>
                 /\ pc' \notin { "stopped", "panicked" }
                 /\ pc' # pc => (PassIndex(pc') > PassIndex(pc)
                                   \/ (pc = "flush" /\ pc' \in { "event", "read" })
                                   \/ (pc = "event" /\ pc' = "read"))
           /\ pc = "stopped" => pc' = "stopped"
           /\ pc' = "stopped" => cancel ]_vars
    /\ (cancel ~> pc = "stopped")

\* the worker has stopped after a pass in which the switch turned relay 1 on
C16_Witness ==
    /\ pc = "stopped"
    /\ cancel
    /\ Logged("IncrementSensorCounter", 2)
    /\ ~OutBit(1)

(***************************************************************************)
(* C17.  A PIR_Trigger on-event that arrives while night is true leaves    *)
(* every relay tagged night_exclude as it is: its output bit is not        *)
(* changed (so it is not turned on) and its stop_after, like its other     *)
(* fields, keeps its value, whatever the relay's override_mode,            *)
(* pir_exclude and pir_all_day.                                            *)
(***************************************************************************)
C17_NightExclude ==
    [][ \A id \in RelayIds :
          ( /\ Wired("PIR_Trigger", id) /\ EvOn /\ night
            /\ HasTag(RelayCfg(id).tags, "night_exclude") )
              => /\ OutBit(id)' = OutBit(id)
                 /\ rel'[id] = rel[id] ]_vars

\* at night a PIR on-event has been kept from relay 1, which is in override mode
C17_Witness ==
    /\ pc = "event"
    /\ night
    /\ Logged("relay_stopped_processing", 1)
    /\ Logged("relay_stopped_processing", 2)
    /\ rel[1].override_mode
    /\ ~OutBit(1)

\* how many times the id is in the queue of scanned ids
Scanned(id) ==
    Cardinality({ j \in 1..Len(rfid_pending_tags) : rfid_pending_tags[j] = id })

\* the scanned ids that resolve to a tag of this kind: without tags, or with a
\* wicket_gate:<delay> tag
ScannedPlain ==
    { j \in 1..Len(rfid_pending_tags) :
        \E k \in 1..Len(conf.rfid_tags) :
            /\ conf.rfid_tags[k].id_tag = rfid_pending_tags[j]
            /\ conf.rfid_tags[k].tags = << >> }

ScannedGate ==
    { j \in 1..Len(rfid_pending_tags) :
        \E k \in 1..Len(conf.rfid_tags) :
            /\ conf.rfid_tags[k].id_tag = rfid_pending_tags[j]
            /\ conf.rfid_tags[k].tags = << << "wicket_gate", "5" >> >> }

\* the rfid tag of a scanned id
TagOf(id) == conf.rfid_tags[CHOOSE k \in 1..Len(conf.rfid_tags) : conf.rfid_tags[k].id_tag = id]

(***************************************************************************)
(* C20.  process_rfid_tags empties the queue of scanned ids in every pass. *)
(* It appends one TurnOnProlong task per associated relay for every        *)
(* scanned id whose tag has no tags, and no other TurnOnProlong; a tag     *)
(* with wicket_gate:<delay> arms the gate (started = now, the delay, the   *)
(* tag's associated relays as targets) and appends no TurnOnProlong; when  *)
(* no scanned id resolves to a tag, the pending list, the gate and the log *)
(* are left as they were.  No actuator changes in this step.               *)
(***************************************************************************)
C20_Rfid ==
    [][ pc = "rfid" =>
          /\ rfid_pending_tags' = << >>
          /\ SubSeq(pending_tasks', 1, Len(pending_tasks)) = pending_tasks
          /\ \A id \in RelayIds :
                 AddedProlongs(id) =
                     Cardinality({ j \in ScannedPlain :
                         SeqContains(TagOf(rfid_pending_tags[j]).associated_relays, id) })
          /\ IF ScannedGate # { }
             THEN /\ wicket_gate_started' = now
                  /\ wicket_gate_delay' = 5000
                  /\ \E j \in ScannedGate :
                         wicket_gate_relays' = TagOf(rfid_pending_tags[j]).associated_relays
             ELSE UNCHANGED << wicket_gate_started, wicket_gate_delay, wicket_gate_relays >>
          /\ (ScannedGate = { } /\ ScannedPlain = { }) =>
                 pending_tasks' = pending_tasks /\ StepLines = << >>
          /\ UNCHANGED << rel, yl, rb_new, rb_last, bedroom_mode, cesspool_level >> ]_vars

\* by day the ids 8 and 7 were scanned: two tasks are pending, the gate is armed
C20_Witness ==
    /\ pc = "apply"
    /\ cur_task = 1
    /\ rfid_pending_tags = << >>
    /\ pending_tasks = ProlongTasks(<< 1, 2 >>)
    /\ Armed
    /\ wicket_gate_started = now
    /\ wicket_gate_relays = << 1, 2 >>
    /\ log = << Line("enabling_wicket_gate", 7, 5000) >>

\* the step is the first successful read of the current sensor board
FirstRead ==
    /\ pc = "read"
    /\ sb_last[cur_sb] = None
    /\ sb_raw'[cur_sb] \in ValidSensorBytes

\* the populated slots of a sensor board, as bit numbers
Populated(board) == { bit \in { 0, 2 } : SensorAt(board, bit).id # None }

(***************************************************************************)
(* C18.  The first successful read of a sensor board calls sensor_hook     *)
(* once for every populated slot, with initial_read = true (each monitored *)
(* sensor gets exactly one state line, which tells the bit that was read), *)
(* and has no actuator side effect: no relay field or output byte changes, *)
(* no yeelight changes or is commanded, no task is added to the pending    *)
(* list, and bedroom_mode and the wicket gate's armed state stay as they   *)
(* were.  The byte becomes the board's last_value.                         *)
(***************************************************************************)
C18_FirstRead ==
    [][ FirstRead =>
          /\ sb_last'[cur_sb] = sb_raw'[cur_sb]
          /\ UNCHANGED << rel, rb_new, rb_last, yl, pending_tasks, bedroom_mode,
                          wicket_gate_started, wicket_gate_delay, wicket_gate_relays >>
          /\ Len(StepLines) = Cardinality(Populated(SensorBoards[cur_sb]))
          /\ \A bit \in Populated(SensorBoards[cur_sb]) :
                 CountLines(StepLines,
                            IF BitSet(sb_raw'[cur_sb], bit) THEN "UpdateSensorStateOn"
                            ELSE "UpdateSensorStateOff",
                            SensorAt(SensorBoards[cur_sb], bit).id) = 1 ]_vars

\* at night, the bedroom mode set and the gate armed, the board of the gate
\* sensor has been read for the first time, with the sensor on
C18_Witness ==
    /\ pc = "daynight"
    /\ night
    /\ bedroom_mode
    /\ Armed
    /\ now - wicket_gate_started < wicket_gate_delay
    /\ sb_last[2] = 15
    /\ Logged("UpdateSensorStateOn", 3)
    /\ ~Logged("IncrementSensorCounter", 3)

\* the worker's step issues a command to the yeelight id
Issues(id) == Len(yl'[id].cmds) > Len(yl[id].cmds)

\* the step is one of a command thread of the yeelight id
ThreadStep(id) == pc' = pc /\ log' = log /\ yl'[id].cmds # yl[id].cmds

(***************************************************************************)
(* C19.  Yeelight commands.  The step of the worker that issues an on/off  *)
(* command sets powered_on to the commanded state and last_toggled to now  *)
(* in that same step, while the command's thread has not made an attempt   *)
(* yet.  No step of a command thread, the one that gives up after the last *)
(* failed attempt included, changes powered_on, last_toggled, stop_after   *)
(* or override_mode.  The worker is never held up by the threads: whatever *)
(* they do, and if they never finish, it comes back to the top of its loop *)
(* again and again.                                                        *)
(***************************************************************************)
C19_Yeelight ==
    /\ [][ \A id \in DOMAIN yl :
             /\ Issues(id) =>
                  /\ pc \in { "event", "ysweep" }
                  /\ yl'[id].cmds = Append(yl[id].cmds,
                                           [ on |-> yl'[id].powered_on, failed |-> 0 ])
                  /\ yl'[id].last_toggled = now
                  /\ Emits("yeelight_tcp_command", id)
             /\ ThreadStep(id) =>
                  /\ yl'[id].powered_on = yl[id].powered_on
                  /\ yl'[id].last_toggled = yl[id].last_toggled
                  /\ yl'[id].stop_after = yl[id].stop_after
                  /\ yl'[id].override_mode = yl[id].override_mode ]_vars
    /\ []<>(pc = "recv")

\* the switch has turned yeelight 1 on; the command's thread has failed twice
\* and is still running, while the worker is in a later pass and holds the
\* yeelight for on
C19_Witness ==
    /\ pc = "read"
    /\ yl[1].powered_on
    /\ yl[1].override_mode
    /\ yl[1].stop_after = 2000
    /\ yl[1].last_toggled = 0
    /\ yl[1].cmds = << [ on |-> TRUE, failed |-> 2 ] >>
    /\ now = 1200


\* sensor_hook stopped the event of the step before the wiring
HookStopped ==
    \E n \in 1..Len(StepLines) :
        StepLines[n] = Line("stop_processing", EvSensor.id, 1)

\* the step wires nothing: no relay, staged byte or yeelight changes
NothingWired == rel' = rel /\ rb_new' = rb_new /\ yl' = yl

(***************************************************************************)
(* C21.  As claimed: whenever a qualifying event of a wicket_gate sensor   *)
(* finds the gate armed, it disarms it, sensor_hook returns false and no   *)
(* associated relay or yeelight is wired for the event, within the delay   *)
(* and after it alike.                                                     *)
(***************************************************************************)
C21_Original ==
    [][ (GateEvent /\ Armed)
          => (wicket_gate_started' = None /\ HookStopped /\ NothingWired) ]_vars

(***************************************************************************)
(* C21 as amended: such an event always disarms the gate.  Within the      *)
(* delay sensor_hook returns false and nothing is wired.  Once the delay   *)
(* has elapsed sensor_hook returns true, no task is added, and the event   *)
(* is wired like any other: a Switch sensor toggles each associated relay  *)
(* that is not flip-flop blocked, and sets its override mode.              *)
(***************************************************************************)
C21_GateClear ==
    [][ (GateEvent /\ Armed)
          => /\ wicket_gate_started' = None
             /\ IF now - wicket_gate_started < wicket_gate_delay
                THEN HookStopped /\ NothingWired
                ELSE /\ HookPassed
                     /\ AddedTasks = << >>
                     /\ \A id \in RelayIds :
                            (Wired("Switch", id) /\ ~Blocked(id))
                                => /\ OutBit(id)' = ~OutBit(id)
                                   /\ rel'[id].override_mode ]_vars

\* the late event of the armed gate's switch has disarmed the gate and has
\* toggled relay 1 and yeelight 1 on: the relay is in override mode although
\* the yeelight was switched only once, so no task of the gate turned it on
C21_Witness ==
    /\ pc \in { "event", "flush" }
    /\ Logged("stop_processing", 2)
    /\ wicket_gate_started = None /\ wicket_gate_delay # None
    /\ ~OutBit(1) /\ rel[1].override_mode
    /\ yl[1].powered_on /\ Len(yl[1].cmds) = 1


\* the step is the sun check of a pass that finds day turned into night or
\* night into day
DayNightChange == pc = "daynight" /\ night' # night

\* how often the step tries to write the relay board b
WriteAttempts(b) ==
    CountLines(StepLines, "write", b) + CountLines(StepLines, "write_error", b)

(***************************************************************************)
(* C22.  Day and night.  At every change from day to night each relay      *)
(* tagged all_night has its output bit forced to 0 (on), at every change   *)
(* from night to day to 1 (off), flip-flop blocked or not; last_toggled is *)
(* stamped, stop_after cleared, one IncrementRelayCounter emitted and the  *)
(* relay's board saved in that step of the pass.  A relay without the tag  *)
(* keeps its bit and its state, and gets no counter.                       *)
(***************************************************************************)
C22_DayNight ==
    [][ DayNightChange =>
          \A id \in RelayIds :
              IF HasTag(RelayCfg(id).tags, "all_night")
              THEN /\ OutBit(id)' = ~night'
                   /\ rel'[id].last_toggled = now
                   /\ rel'[id].stop_after = None
                   /\ CountLines(StepLines, "IncrementRelayCounter", id) = 1
                   /\ WriteAttempts(RelaySlot(id)[1]) = 1
                   /\ WriteEffect(RelaySlot(id)[1])
              ELSE /\ OutBit(id)' = OutBit(id)
                   /\ rel'[id] = rel[id]
                   /\ CountLines(StepLines, "IncrementRelayCounter", id) = 0 ]_vars

\* night has turned into day in a pass whose switch event had just toggled the
\* relays 1 and 2 on: the all_night relay 1 is forced off within its flip-flop
\* delay and written, relay 2 stays on
C22_Witness ==
    /\ pc = "rfid"
    /\ ~night
    /\ Logged("day_night_auto_turn", 1)
    /\ Logged("write", 1)
    /\ BitSet(rb_last[1], 0) /\ ~BitSet(rb_last[1], 1)
    /\ rb_new[1] = None
    /\ rel[1].last_toggled = now /\ rel[1].stop_after = None
    /\ rel[2].last_toggled = now /\ rel[2].override_mode


\* the sweep timeout of the relay id is reached when the sweep of the pass starts
SweepTimeout(id) == pc = "sweep" /\ SweepDue(rel[id], now)

PirOnWhileOn(id) == Wired("PIR_Trigger", id) /\ EvOn /\ HookPassed /\ ~OutBit(id)

\* elapsed(last_toggled) as the prolonging computes it: zero without a stamp
Elapsed(id) == IF rel[id].last_toggled = None THEN 0 ELSE now - rel[id].last_toggled

\* the prolong window of a relay in override mode: DEFAULT_PIR_PROLONG_SECS,
\* or pir_hold_secs when that is longer
Window(id) ==
    IF Secs(DEFAULT_PIR_PROLONG_SECS) > RelayCfg(id).pir_hold_secs
    THEN Secs(DEFAULT_PIR_PROLONG_SECS) ELSE RelayCfg(id).pir_hold_secs

\* stop_after of the relay id after a prolonging in override mode
OverrideProlonged(id) ==
    IF RelayCfg(id).switch_hold_secs > Window(id)
          /\ Elapsed(id) > RelayCfg(id).switch_hold_secs - Window(id)
    THEN Elapsed(id) + Window(id)
    ELSE rel[id].stop_after

(***************************************************************************)
(* C24.  As claimed: every PIR on-event on a relay that is on leaves the   *)
(* output bit and override_mode alone and prolongs the relay: without      *)
(* override mode stop_after becomes elapsed(last_toggled) + pir_hold_secs; *)
(* in override mode it becomes elapsed + window if switch_hold_secs        *)
(* exceeds the window and elapsed > switch_hold_secs - window, and stays   *)
(* as it is otherwise.                                                     *)
(***************************************************************************)
C24_Original ==
    [][ \A id \in RelayIds :
          PirOnWhileOn(id)
              => /\ OutBit(id)' = OutBit(id)
                 /\ rel'[id].override_mode = rel[id].override_mode
                 /\ rel'[id].stop_after =
                        IF rel[id].override_mode THEN OverrideProlonged(id)
                        ELSE Elapsed(id) + RelayCfg(id).pir_hold_secs ]_vars

(***************************************************************************)
(* C24 as amended: the same, except that a relay without override mode is  *)
(* prolonged only by a PIR on-event that concerns it (pir_exclude = false, *)
(* night or pir_all_day, no night_exclude veto) and otherwise keeps its    *)
(* stop_after, and that a relay in override mode is prolonged unless       *)
(* relay_hook vetoes the event; the window is DEFAULT_PIR_PROLONG_SECS, or *)
(* pir_hold_secs when that is longer.  last_toggled never changes.         *)
(***************************************************************************)
C24_PirProlong ==
    [][ \A id \in RelayIds :
          PirOnWhileOn(id)
              => /\ OutBit(id)' = OutBit(id)
                 /\ rel'[id].override_mode = rel[id].override_mode
                 /\ rel'[id].last_toggled = rel[id].last_toggled
                 /\ rel'[id].stop_after =
                        IF night /\ HasTag(RelayCfg(id).tags, "night_exclude")
                        THEN rel[id].stop_after
                        ELSE IF rel[id].override_mode THEN OverrideProlonged(id)
                        ELSE IF PirAccepted(id)
                             THEN Elapsed(id) + RelayCfg(id).pir_hold_secs
                             ELSE rel[id].stop_after ]_vars

\* a PIR on-event has just prolonged relay 1, switched on more than a second
\* ago, in override mode: stop_after is elapsed + 900 s
C24_Witness ==
    /\ pc \in { "event", "flush" }
    /\ log # << >> /\ Logged("pir_prolonging", 1)
    /\ ~OutBit(1) /\ rel[1].override_mode
    /\ rel[1].last_toggled # None
    /\ now - rel[1].last_toggled > 1000
    /\ rel[1].stop_after = (now - rel[1].last_toggled) + Secs(DEFAULT_PIR_PROLONG_SECS)


\* the next step applies a TurnOnProlong task to the relay id, which is off,
\* not in override mode and not flip-flop blocked
TaskTurnsOn(id) ==
    TaskOn("TurnOnProlong", id) /\ OutBit(id) /\ ~rel[id].override_mode /\ ~Blocked(id)

(***************************************************************************)
(* C25.  As claimed: a TurnOnProlong task without a duration applied to a  *)
(* relay that is off turns it on with stop_after = pir_hold_secs, whatever *)
(* its switch_hold_secs, and leaves override_mode false; with a duration d *)
(* it sets stop_after = d.                                                 *)
(***************************************************************************)
C25_Original ==
    [][ \A id \in RelayIds :
          TaskTurnsOn(id)
              => /\ ~OutBit(id)'
                 /\ ~rel'[id].override_mode
                 /\ rel'[id].stop_after =
                        IF TaskNow.duration # None THEN TaskNow.duration
                        ELSE RelayCfg(id).pir_hold_secs ]_vars

(***************************************************************************)
(* C25 as amended: without a duration the task holds the relay for its     *)
(* switch_hold_secs when that differs from DEFAULT_SWITCH_HOLD_SECS, and   *)
(* for its pir_hold_secs only when switch_hold_secs is the default; the    *)
(* task stamps last_toggled itself.                                        *)
(***************************************************************************)
C25_TaskDuration ==
    [][ \A id \in RelayIds :
          TaskTurnsOn(id)
              => /\ ~OutBit(id)'
                 /\ ~rel'[id].override_mode
                 /\ rel'[id].last_toggled = now
                 /\ rel'[id].stop_after =
                        IF TaskNow.duration # None THEN TaskNow.duration
                        ELSE IF RelayCfg(id).switch_hold_secs
                                   # Secs(DEFAULT_SWITCH_HOLD_SECS)
                             THEN RelayCfg(id).switch_hold_secs
                             ELSE RelayCfg(id).pir_hold_secs ]_vars

\* a task without a duration has just turned relay 1 on for its
\* switch_hold_secs, not in override mode
C25_Witness ==
    /\ pc \in { "apply", "sweep" }
    /\ Logged("external_turning_on", 1)
    /\ ~OutBit(1) /\ ~rel[1].override_mode
    /\ rel[1].last_toggled = now
    /\ rel[1].stop_after = RelayCfg(1).switch_hold_secs
    /\ RelayCfg(1).switch_hold_secs # RelayCfg(1).pir_hold_secs


\* how many IncrementRelayCounter intents the step emits for the relay id
Counters(id) == CountLines(StepLines, "IncrementRelayCounter", id)

\* the staged byte of the relay's board differs from the written one in the
\* relay's bit: a change by a sensor event that the flush is about to write
StagedChange(id) ==
    LET b == RelaySlot(id)[1]
    IN  /\ rb_new[b] # None
        /\ BitSet(rb_new[b], RelaySlot(id)[2]) # BitSet(BaseValue(None, rb_last[b]), RelaySlot(id)[2])

(***************************************************************************)
(* C26.  Counters.  As claimed: every change of a relay's output bit is    *)
(* stamped in last_toggled and counted by exactly one                      *)
(* IncrementRelayCounter, and no counter is emitted for a relay whose bit  *)
(* did not change.  A change by a PIR or a Switch is staged by the event   *)
(* and stamped and counted by the flush that follows it; a change by a     *)
(* task, by the day/night transition or by the sweep is stamped and        *)
(* counted in its own step.                                                *)
(***************************************************************************)
C26_Original ==
    [][ \A id \in RelayIds :
          /\ pc = "flush" =>
                /\ Counters(id) = IF StagedChange(id) THEN 1 ELSE 0
                /\ StagedChange(id) => rel'[id].last_toggled = now
          /\ pc \in { "apply", "daynight", "sweep" } =>
                /\ Counters(id) = IF OutBit(id)' # OutBit(id) THEN 1 ELSE 0
                /\ OutBit(id)' # OutBit(id) => rel'[id].last_toggled = now
          /\ pc \notin { "flush", "apply", "daynight", "sweep" } => Counters(id) = 0 ]_vars


\* the step fails to write the relay board b
WriteFails(b) == CountLines(StepLines, "write_error", b) > 0

\* a failed write keeps the staged byte and last_value, and the worker goes on
FailureKeeps(b) ==
    WriteFails(b) =>
        /\ rb_new'[b] # None
        /\ \A n \in 1..Len(StepLines) :
               (StepLines[n].k = "write_error" /\ StepLines[n].id = b)
                   => rb_new'[b] = StepLines[n].v
        /\ rb_last'[b] = rb_last[b]
        /\ pc' \notin { "stopped", "panicked" }

Mirrors(y, r) ==
    /\ yl[y].powered_on = ~OutBit(r)
    /\ yl[y].override_mode = rel[r].override_mode
    /\ yl[y].stop_after = rel[r].stop_after

(***************************************************************************)
(* C28.  Yeelight and relay side by side.  As claimed: a yeelight and a    *)
(* relay with the same settings, both off at the start and wired to the    *)
(* same sensors, are in corresponding states between any two passes:       *)
(* powered_on equals the relay being on, and override_mode and stop_after  *)
(* are equal, also when two wired sensors of one board change in the same  *)
(* read.                                                                   *)
(***************************************************************************)
C28_Original == pc = "recv" => Mirrors(1, 1)


\* how often the lines report a TurnOnProlong task applied to the relay id:
\* turned on, refused by the flip-flop protection, or prolonged
ProlongsApplied(lines, id) ==
    CountLines(lines, "external_turning_on", id)
        + CountLines(lines, "warn_flipflop_external_on", id)
        + CountLines(lines, "external_prolonging", id)

\* how many of the tasks are TurnOnProlong tasks that match the relay id
ProlongsPending(tasks, id) ==
    Cardinality({ k \in 1..Len(tasks) :
                    tasks[k].command = "TurnOnProlong" /\ TaskMatches(tasks[k], RelayCfg(id)) })

(***************************************************************************)
(* C29.  Pending tasks.  The list of pending tasks is empty whenever a     *)
(* pass begins; it grows only in the receive step, in the sensor events    *)
(* and in the RFID step of a pass; the pending-task block of that pass     *)
(* applies every TurnOnProlong task of the list exactly once to every      *)
(* relay it matches and leaves the list empty, and when the block is       *)
(* skipped the list is empty.                                              *)
(***************************************************************************)
C29_Pending ==
    [][ /\ pc = "recv" => pending_tasks = << >>
        /\ pc' \in { "sweep", "ysweep", "recv" } => pending_tasks' = << >>
        /\ pending_tasks' # pending_tasks => pc \in { "recv", "event", "rfid", "apply" }
        /\ (pc = "apply" /\ pc' = "apply") => pending_tasks' = pending_tasks
        /\ (pc = "apply" /\ pc' = "sweep")
              => \A id \in RelayIds :
                     ProlongsApplied(log', id) = ProlongsPending(pending_tasks, id) ]_vars

\* a pass has applied three tasks to relay 1, one received from another thread,
\* one of the wicket gate sensor and one of an RFID tag, and has emptied the list
C29_Witness ==
    /\ pc = "sweep"
    /\ pending_tasks = << >>
    /\ ProlongsApplied(log, 1) = 3
    /\ Logged("stop_processing", 3)
    /\ wicket_gate_started = None /\ wicket_gate_delay # None


\* the step ends the pending-task block of a pass whose list holds the entry
\* light task: the gate was armed by RFID, or confirmed by its sensor, at night
EntryLightsAsked ==
    /\ pc = "apply" /\ pc' = "sweep"
    /\ \E k \in 1..Len(pending_tasks) : pending_tasks[k] = EntryLightTask

(***************************************************************************)
(* C30.  Entry lights.  As claimed: when the wicket gate is armed by RFID, *)
(* or confirmed by a sensor within the delay, at night, every relay tagged *)
(* entry_light that is not flip-flop blocked is on when the pending-task   *)
(* block of that pass ends, an off one having been turned on with          *)
(* stop_after = ENTRY_LIGHT_PROLONG_SECS; by day no such task is pending.  *)
(***************************************************************************)
C30_Original ==
    [][ /\ EntryLightsAsked =>
              \A id \in RelayIds :
                  (HasTag(RelayCfg(id).tags, "entry_light") /\ ~Blocked(id))
                      => /\ ~OutBit(id)'
                         /\ Logged("external_turning_on", id)'
                               => rel'[id].stop_after = Secs(ENTRY_LIGHT_PROLONG_SECS)
        /\ \A k \in 1..Len(AddedTasks) : AddedTasks[k] = EntryLightTask => night ]_vars

\* the cesspool probes: << board, bit, tag index >> of every tag cesspool:<n>
\* of a sensor
Probes ==
    { p \in (1..Len(SensorBoards)) \X { 0, 2 } \X (1..2) :
        LET sensor == SensorAt(SensorBoards[p[1]], p[2])
        IN  /\ sensor.id # None
            /\ p[3] <= Len(sensor.tags)
            /\ StartsWith(sensor.tags[p[3]], "cesspool")
            /\ Len(sensor.tags[p[3]]) >= 2
            /\ ParseUsize(sensor.tags[p[3]][2]) # None }

\* the tag of a probe, its index <n>, whether it reports all changes
ProbeTag(p) == SensorAt(SensorBoards[p[1]], p[2]).tags[p[3]]
ProbeIndex(p) == ParseUsize(ProbeTag(p)[2])
ProbeAllChanges(p) == Contains(ProbeTag(p), "all_changes")

\* the effective state of a probe in the byte of its board
ProbeState(p, byte) ==
    IF Contains(ProbeTag(p), "invert_state") THEN ~BitSet(byte, p[2]) ELSE BitSet(byte, p[2])

\* the next step is the change event of the probe
ProbeChange(p) ==
    /\ EvChanged
    /\ cur_sb = p[1] /\ bits[cur_bit] = p[2]

\* every index of the level vector holds a value
Complete(level) == level # << >> /\ \A i \in 1..Len(level) : level[i] # None

\* the step emits the LCD count and the percentage of the level vector it leaves
Reemits ==
    /\ \E n \in 1..Len(StepLines) :
         StepLines[n] = Line("SetCesspoolLevel", 0, TrueCount(cesspool_level'))
    /\ \E n \in 1..Len(StepLines) :
         StepLines[n] = Line("UpdateCesspoolLevel", 0,
                             (100 * TrueCount(cesspool_level')) \div Len(cesspool_level'))

(***************************************************************************)
(* C31.  Cesspool level vector.  As claimed: at a pass boundary, for every *)
(* sensor tagged cesspool:<n> whose board has been read, level[n-1] is     *)
(* Some(last observed effective state of the probe); and once the vector   *)
(* is complete, every later change of a probe, to on or to off, re-emits   *)
(* the recomputed LCD count and percentage.                                *)
(***************************************************************************)
C31_Original ==
    [][ /\ pc' = "recv" =>
              \A p \in Probes :
                  sb_last'[p[1]] # None
                      => cesspool_level'[ProbeIndex(p)]
                             = SomeBool(ProbeState(p, sb_last'[p[1]]))
        /\ \A p \in Probes :
               (ProbeChange(p) /\ Complete(cesspool_level)) => Reemits ]_vars

(***************************************************************************)
(* C31 as amended: that holds of the probes whose tag carries the          *)
(* all_changes modifier.  For a probe without it only the first read and   *)
(* the changes to on are recorded: a change to off leaves the level vector *)
(* as it is and emits nothing, so level[n-1] is Some(true) whenever the    *)
(* last observed state is on, and stays Some(true) after the probe went    *)
(* off.                                                                    *)
(***************************************************************************)
C31_Cesspool ==
    [][ /\ pc' = "recv" =>
              \A p \in Probes :
                  (sb_last'[p[1]] # None
                     /\ (ProbeAllChanges(p) \/ ProbeState(p, sb_last'[p[1]])))
                      => cesspool_level'[ProbeIndex(p)]
                             = SomeBool(ProbeState(p, sb_last'[p[1]]))
        /\ \A p \in Probes :
               /\ (ProbeChange(p) /\ Complete(cesspool_level)
                     /\ (ProbeAllChanges(p) \/ ProbeState(p, cur_val)))
                    => /\ Reemits
                       /\ cesspool_level'[ProbeIndex(p)] = SomeBool(ProbeState(p, cur_val))
               /\ (ProbeChange(p) /\ ~ProbeAllChanges(p) /\ ~ProbeState(p, cur_val))
                    => /\ cesspool_level' = cesspool_level
                       /\ ~EmitsSnapshot ]_vars

\* at the end of a pass with a complete vector: probe 1 (all changes) went off
\* in this pass and the snapshot was re-emitted; probe 2 (on-events only) is
\* last seen off and still recorded on
C31_Witness ==
    /\ pc = "recv"
    /\ Complete(cesspool_level)
    /\ Logged("IncrementSensorCounter", 11)
    /\ ~BitSet(sb_last[1], 0) /\ cesspool_level[1] = 0
    /\ Logged("SetCesspoolLevel", 0) /\ Logged("UpdateCesspoolLevel", 0)
    /\ ~BitSet(sb_last[1], 2) /\ cesspool_level[2] = 1

\* a hold timer of an actuator has the timestamp it is measured from
Paired(d) == d.stop_after # None => d.last_toggled # None

(***************************************************************************)
(* C32.  Hold timer and timestamp.  As claimed: at every pass boundary,    *)
(* for every relay and every yeelight, stop_after being set implies that   *)
(* last_toggled is set, so the sweep examines every actuator that has a    *)
(* hold timer.                                                             *)
(***************************************************************************)
C32_Original ==
    pc = "recv" =>
        /\ \A id \in RelayIds : Paired(rel[id])
        /\ \A id \in DOMAIN yl : Paired(yl[id])

\* the stop line of sensor_hook is the last thing the step emits: no trace of
\* relay_hook, of yeelight_hook, of a transition or of a yeelight command
StopLineLast ==
    StepLines # << >>
        /\ StepLines[Len(StepLines)] = Line("stop_processing", EvSensor.id, 1)

\* the tasks sensor_hook can put in the pending list: TurnOnProlong for the
\* relays of the armed gate, and the entry light task
HookTasks ==
    { OneWireTask("TurnOnProlong", wicket_gate_relays[k], NoGroup, None) :
        k \in 1..Len(wicket_gate_relays) } \cup { EntryLightTask }

(***************************************************************************)
(* C33.  Stopped event.  When sensor_hook returns false for a sensor       *)
(* event, the event changes no relay (staged byte, written byte,           *)
(* stop_after, override_mode, last_toggled) and no yeelight, issues no     *)
(* yeelight command and runs no relay_hook or yeelight_hook: the stop line *)
(* is the last thing the event emits.  The pending list keeps what it held *)
(* and grows only by the tasks of sensor_hook, which the pending-task      *)
(* block of the pass applies.                                              *)
(***************************************************************************)
C33_Stopped ==
    [][ (EvChanged /\ HookStopped)
          => /\ NothingWired
             /\ rb_last' = rb_last
             /\ StopLineLast
             /\ SubSeq(pending_tasks', 1, Len(pending_tasks)) = pending_tasks
             /\ \A k \in 1..Len(AddedTasks) : AddedTasks[k] \in HookTasks ]_vars

\* the switch of the armed gate changed within the delay: sensor_hook stopped
\* the event and left a task for relay 1, and the relay and the yeelight the
\* switch is wired to are as they were, off and never toggled
C33_Witness ==
    /\ pc \in { "event", "flush" }
    /\ log # << >> /\ log[Len(log)] = Line("stop_processing", 2, 1)
    /\ \E k \in 1..Len(pending_tasks) :
           pending_tasks[k] = OneWireTask("TurnOnProlong", 1, NoGroup, None)
    /\ OutBit(1) /\ ~rel[1].override_mode /\ rel[1].last_toggled = None
    /\ ~yl[1].powered_on /\ yl[1].cmds = << >>

\* the worker is at the match on the command of this task, for a relay the
\* task matches, in the pending-task block
Applying(task) ==
    /\ pc = "apply"
    /\ TaskWork(pending_tasks, 0, 1)[cur_task].i # 8
    /\ TaskNow = task

\* the task waits in the channel
Queued(task) == \E k \in 1..Len(ow_channel) : ow_channel[k] = task

ActsOn(id) ==
    \/ EvChanged /\ SeqContains(EvSensor.associated_relays, id)
    \/ /\ pc = "apply"
       /\ TaskWork(pending_tasks, 0, 1)[cur_task].i # 8
       /\ RelayBoards[TaskWork(pending_tasks, 0, 1)[cur_task].b]
              .relay[TaskWork(pending_tasks, 0, 1)[cur_task].i].id = id
    \/ pc = "daynight" /\ HasTag(RelayCfg(id).tags, "all_night")
    \/ pc = "sweep" /\ rel[id].last_toggled # None /\ rel[id].stop_after # None

\* the bit of the relay id in the staged byte of its board (the written byte
\* when nothing is staged), and in the written byte
StagedBit(id) ==
    LET b == RelaySlot(id)[1]
    IN  BitSet(IF rb_new[b] # None THEN rb_new[b] ELSE rb_last[b], RelaySlot(id)[2])
WrittenBit(id) == BitSet(rb_last[RelaySlot(id)[1]], RelaySlot(id)[2])

\* the bits of the relay boards that have no relay attached
FreeSlots == { s \in RelayBoardIds \X (0..7) : RelayBoards[s[1]].relay[s[2]].id = None }

(***************************************************************************)
(* C35.  Bits of a shared relay board.  A step that acts on some relays    *)
(* (a PIR or Switch event, a task, the day/night change, the sweep) leaves *)
(* the staged bit of every other relay unchanged, and the written bit of   *)
(* another relay changes only to that relay's own staged bit, so it stays  *)
(* as it is when nothing was staged for it.  The bits that have no relay   *)
(* attached are 1 in every staged byte, every written byte and every byte  *)
(* handed to a write.                                                      *)
(***************************************************************************)
C35_OtherBits ==
    [][ /\ \A id \in RelayIds :
             ~ActsOn(id)
                 => /\ StagedBit(id)' = StagedBit(id)
                    /\ WrittenBit(id)' \in { WrittenBit(id), StagedBit(id) }
        /\ \A s \in FreeSlots :
             /\ BitSet(rb_last'[s[1]], s[2])
             /\ rb_new'[s[1]] # None => BitSet(rb_new'[s[1]], s[2])
             /\ \A n \in 1..Len(StepLines) :
                    (StepLines[n].k \in { "write", "write_error" } /\ StepLines[n].id = s[1])
                        => BitSet(StepLines[n].v, s[2]) ]_vars

\* the sweep has turned relay 1 off in this pass while relay 2 (switch) and
\* relay 3 (all_night) are on: the board holds 0xd7, bits 3 and 5 cleared
C35_Witness ==
    /\ Logged("auto_turn_off", 1)
    /\ \E n \in 1..Len(log) : log[n] = Line("write", 1, 215)
    /\ rb_last[1] = 215 /\ rb_new[1] = None

\* the time at which the sweep is due to turn the relay id off
AutoOff(id) == rel[id].last_toggled + rel[id].stop_after

\* the relay id is on with a hold timer running
Timed(id) == ~OutBit(id) /\ rel[id].last_toggled # None /\ rel[id].stop_after # None

(***************************************************************************)
(* C36.  Prolong.  As claimed: a PIR on-event or a TurnOnProlong task      *)
(* applied to a relay that is already on with a hold timer never brings    *)
(* the scheduled auto-off time forward: last_toggled + stop_after after    *)
(* the step is at least what it was before.                                *)
(***************************************************************************)
C36_Original ==
    [][ \A id \in RelayIds :
          (TurnOnRequest(id) /\ Timed(id))
              => /\ Timed(id)'
                 /\ AutoOff(id)' >= AutoOff(id) ]_vars

\* the hold timer of the relay id has run out
Due(id) ==
    /\ rel[id].last_toggled # None /\ rel[id].stop_after # None
    /\ now - rel[id].last_toggled > Secs(MIN_TOGGLE_DELAY_SECS)
    /\ now - rel[id].last_toggled > rel[id].stop_after

\* the sweep of this pass has turned the relay id off
SweptOff(id) ==
    /\ Logged("auto_turn_off", id)
    /\ OutBit(id) /\ ~rel[id].override_mode /\ rel[id].stop_after = None

\* an event concerning the relay id has arrived in this pass: a PIR on-event
\* or a Switch event wired to it, or a task applied to it
Concerned(id) ==
    \E n \in 1..Len(log) :
        /\ log[n].id = id
        /\ log[n].k \in { "pir_turning_on", "pir_prolonging", "warn_flipflop_pir",
                          "switch_toggle", "warn_flipflop_switch",
                          "external_turning_on", "external_prolonging",
                          "warn_flipflop_external_on", "external_turn_off",
                          "warn_flipflop_external_off" }

(***************************************************************************)
(* C37.  Auto-off.  A PIR event, a Switch toggle or a TurnOnProlong task   *)
(* that turns a relay on leaves it with a hold timer, and at the end of    *)
(* every pass a relay that is on has its timer and the timestamp the timer *)
(* is measured from.  Once the timer has run out, the worker's next sweep  *)
(* turns the relay off, with override_mode = false and stop_after = None,  *)
(* in the same step and through a write of the board, unless an event      *)
(* concerning the relay arrives first: so while the worker keeps running   *)
(* and writes succeed, a relay that is on with its timer run out leads to  *)
(* the relay swept off or to such an event.                                *)
(***************************************************************************)
C37_AutoOff ==
    /\ [][ \A id \in RelayIds :
             /\ (pc \in { "event", "apply" } /\ OutBit(id) /\ ~OutBit(id)')
                   => rel'[id].stop_after # None
             /\ (pc' = "recv" /\ ~OutBit(id)') => Timed(id)'
             /\ (pc = "sweep" /\ ~OutBit(id) /\ Due(id))
                   => /\ SweptOff(id)'
                      /\ rb_new'[RelaySlot(id)[1]] = None
                      /\ BitSet(rb_last'[RelaySlot(id)[1]], RelaySlot(id)[2]) ]_vars
    /\ \A id \in { 1 } : (~OutBit(id) /\ Due(id)) ~> (SweptOff(id) \/ Concerned(id))

\* the sweep of this pass has turned relay 1 off and written the board, and
\* no event concerning the relay came in the pass; the PIR sensor is still on
C37_Witness ==
    /\ pc = "ysweep"
    /\ SweptOff(1) /\ ~Concerned(1)
    /\ rel[1].last_toggled = now
    /\ rb_last[1] = 255 /\ rb_new[1] = None
    /\ sb_last[1] = 75


\* the relay id is off in override mode, as a Switch toggle of a relay that was
\* on leaves it
SwitchedOff(id) == OutBit(id) /\ rel[id].override_mode

\* the step toggles the relay id, which is on, by a Switch event
SwitchTurnsOff(id) == Wired("Switch", id) /\ HookPassed /\ ~Blocked(id) /\ ~OutBit(id)

\* the step is the sweep and finds the timer of the relay id, at least
\* switch_hold_secs, run out
SweepEndsOverride(id) ==
    /\ pc = "sweep"
    /\ rel[id].last_toggled # None
    /\ Elapsed(id) > RelayCfg(id).switch_hold_secs

(***************************************************************************)
(* C38.  As claimed: a Switch toggle of a relay that is on leaves it off   *)
(* with override_mode = true and stop_after = switch_hold_secs; in that    *)
(* state no PIR on-event and no TurnOnProlong task turns it on; override   *)
(* mode of the relay that is off ends only in the sweep, with elapsed >    *)
(* switch_hold_secs, and nothing but another Switch toggle turns it on.    *)
(***************************************************************************)
C38_Original ==
    [][ \A id \in RelayIds :
          /\ SwitchTurnsOff(id)
                => /\ SwitchedOff(id)'
                   /\ rel'[id].stop_after = RelayCfg(id).switch_hold_secs
          /\ (SwitchedOff(id) /\ TurnOnRequest(id)) => OutBit(id)'
          /\ (SwitchedOff(id) /\ OutBit(id)' /\ ~rel'[id].override_mode)
                => SweepEndsOverride(id)
          /\ (SwitchedOff(id) /\ ~OutBit(id)') => Wired("Switch", id) ]_vars

(***************************************************************************)
(* C38 as amended: the same, except that a relay tagged all_night that is  *)
(* off in override mode is also turned on, override mode kept, by the      *)
(* change from day to night.                                               *)
(***************************************************************************)
C38_Override ==
    [][ \A id \in RelayIds :
          /\ SwitchTurnsOff(id)
                => /\ SwitchedOff(id)'
                   /\ rel'[id].stop_after = RelayCfg(id).switch_hold_secs
          /\ (SwitchedOff(id) /\ TurnOnRequest(id)) => OutBit(id)'
          /\ (SwitchedOff(id) /\ OutBit(id)' /\ ~rel'[id].override_mode)
                => SweepEndsOverride(id)
          /\ (SwitchedOff(id) /\ ~OutBit(id)')
                => \/ Wired("Switch", id)
                   \/ /\ pc = "daynight" /\ night'
                      /\ HasTag(RelayCfg(id).tags, "all_night")
                      /\ rel'[id].override_mode ]_vars

\* relay 1, switched off in an earlier pass and still off in override mode, has
\* met a PIR on-event and a TurnOnProlong task in this pass
C38_Witness ==
    /\ pc = "sweep"
    /\ SwitchedOff(1)
    /\ rel[1].stop_after = RelayCfg(1).switch_hold_secs
    /\ Logged("pir_prolonging", 1) /\ Logged("external_prolonging", 1)
    /\ ~Logged("switch_toggle", 1)


\* the relay id carries the tag all_night
AllNight(id) == HasTag(RelayCfg(id).tags, "all_night")

(***************************************************************************)
(* C40.  As claimed: while it is night and stays night, no step turns off  *)
(* a relay tagged all_night that is on.  Stated where the night always     *)
(* begins with the relay forced on and only a motion detector and the      *)
(* sweep act on it afterwards.                                             *)
(***************************************************************************)
C40_Original ==
    [][ \A id \in RelayIds :
          (AllNight(id) /\ night /\ night' /\ ~OutBit(id)) => ~OutBit(id)' ]_vars


\* how many of the ids in the queue resolve to a tag without tags that is
\* associated with the relay id
ScannedFor(id) ==
    Cardinality({ j \in ScannedPlain :
                    SeqContains(TagOf(rfid_pending_tags[j]).associated_relays, id) })

\* the pass has handled every id in the queue once: it holds one pending
\* TurnOnProlong task per id and associated relay
Handled == \A id \in RelayIds : ProlongsPending(pending_tasks, id) = ScannedFor(id)

\* the step leaves the queue alone or appends one id to it
Appends ==
    \/ rfid_pending_tags' = rfid_pending_tags
    \/ \E id \in conf.scan_ids : rfid_pending_tags' = Append(rfid_pending_tags, id)

(***************************************************************************)
(* C39.  The scanner and the worker.  Whatever the interleaving, every     *)
(* step but the clear leaves the queue alone or appends one id to it; the  *)
(* worker handles ids in process_rfid_tags only, every id in the queue     *)
(* once; the queue it clears is the queue it has handled, and it is empty  *)
(* afterwards; and every id in the queue is reached by process_rfid_tags   *)
(* as long as the worker runs.                                             *)
(***************************************************************************)
C39_Scanner ==
    /\ [][ /\ pc # "rfid_locked" => Appends
           /\ pc # "rfid" => \A id \in RelayIds : AddedProlongs(id) = 0
           /\ (pc = "rfid" /\ pc' = "rfid_locked") => Handled'
           /\ pc = "rfid_locked" => Handled /\ rfid_pending_tags' = << >> ]_vars
    /\ rfid_pending_tags # << >> ~> pc = "rfid_locked"

\* the pass has handled the id 8 (its task is about to be applied) and cleared
\* the queue, and the scanner has appended 8 again since
C39_Witness ==
    /\ pc = "apply"
    /\ pending_tasks = ProlongTasks(<< 1 >>)
    /\ rfid_pending_tags = << 8 >>

=============================================================================
